---- MODULE Spec2Model ----
(***************************************************************************)
(* Proteus: the cross-thread hand-offs of the real-time frame pipeline.    *)
(*                                                                         *)
(*   capture thread  --sync_channel(2)-->  application loop                *)
(*   application loop --sync_channel(1)--> segmentation worker --channel-->*)
(*   decode thread   --sync_channel(5)-->  VideoPlayer::get_frame          *)
(*                                                                         *)
(* Frames are identified by their capture sequence number (1, 2, ...);     *)
(* 0 stands for Rust's None.  Every step between two channel operations of *)
(* a thread is one action, so that the other thread may run in between.    *)
(***************************************************************************)
EXTENDS Integers, Sequences, FiniteSets

VARIABLES
    \* ---- capture thread (capture/mod.rs, closure of AsyncCapture::new)
    capPc,          \* "opening" | "loop" | "capture" | "send" | "done"
    capFrame,       \* frame returned by capture_frame(), not yet published
    frameSeq,       \* number of frames the camera has delivered so far
    camStuck,       \* the driver no longer returns from capture_frame()
    sendResult,     \* result of the last try_send: "none" | "ok" | "full" | "disconnected"
    \* ---- shared between capture thread and loop
    frameChan,      \* content of the sync_channel behind frame_tx / frame_rx
    running,        \* AsyncCapture.running (Arc<AtomicBool>)
    rxAlive,        \* the AsyncCapture handle (and so frame_rx) still exists
    \* ---- application loop (main.rs, run_virtual_camera_mode)
    loopPc,         \* "tick" | "setup" | "drain" | "process" | "end"
    latestFrame,    \* AsyncCapture.latest_frame
    frameOption,    \* frame_option of the current tick
    tickCount,      \* completed ticks
    tickOutcome,    \* "none" | "skipped" | "presented" | "failed"
    lastPresented,  \* frame last handed to output.write_frame
    \* ---- history of the capture hand-off
    lastOffered,    \* frame most recently given to try_send
    lastQueued,     \* frame most recently accepted by try_send
    prevReturned,   \* what the previous get_latest_frame call returned
    gotNew,         \* the running get_latest_frame call has received a frame
    everRecv,       \* some frame has been received through frame_rx
    oldCapPc,       \* threads of the captures dropped by a restart, in order:
                    \* "loop" | "capture" | "send" | "stuck" | "done"
    \* ---- segmentation worker thread (ml/mod.rs, AsyncSegmentationEngine::new)
    mlPc,           \* "recv" | "predict" | "done"
    mlCur,          \* frame the worker took out of frame_rx
    mlFrameChan,    \* content of the sync_channel behind frame_tx / frame_rx
    maskChan,       \* content of the channel behind mask_tx / mask_rx
    mlAlive,        \* the AsyncSegmentationEngine (frame_tx, mask_rx) still exists
    \* ---- WgpuPipeline::process_frame, steps 1 and 2
    plPc,           \* "submit" | "poll"
    mlSeq,          \* frames handed to process_frame so far
    accepted,       \* what the last try_predict returned
    pollLatest,     \* `latest` of the running poll_result call
    maskResult,     \* what the last poll_result returned (0: None)
    \* ---- history of the segmentation hand-off
    busyAtSubmit,   \* the worker was inside predict() when try_predict was last called
    lastProduced,   \* mask most recently sent by the worker
    producedAtPoll, \* lastProduced when the previous poll_result returned
    pollCount,      \* masks received by the running / last poll_result call
    mlFailed,       \* frames for which engine.predict returned Err
    \* ---- decode thread (video/mod.rs, VideoPlayer::decode_loop)
    vidPc,          \* "outer" | "spawn" | "sleep" | "inner" | "read" | "send" | "wait" | "done"
    vidChild,       \* the ffmpeg subprocess: "none" | "running" | "killed"
    vidFrameCount,  \* frame_count of the running subprocess
    vidBuf,         \* the DecodedFrame about to be sent
    vidSeq,         \* frames read from subprocesses so far (frame identity)
    vidChan,        \* content of the sync_channel behind tx / frame_rx
    vidStop,        \* *stop_signal
    vidAlive,       \* the VideoPlayer (frame_rx, _stop_signal) still exists
    \* ---- VideoPlayer::get_frame
    gfPc,           \* "idle" | "drain"
    vidStart,       \* start_time (NoTime: None)
    vidTime,        \* `time` of the last / running call
    vidCurrent,     \* current_frame (NoFrame: None)
    vidNext,        \* next_frame (NoFrame: None)
    vidReturned,    \* what the last get_frame call returned
    \* ---- history of the video hand-off
    vidRecvd,       \* frames get_frame has taken out of frame_rx, in order
    \* ---- WgpuPipeline (shader/wgpu_pipeline.rs)
    wpPc,               \* "new" | "idle" | "frame" | "failed"
    shaderSources,      \* shader_sources: the stages' sources as held in memory
    shaderFiles,        \* the watched shader files on disk
    reloadRx,           \* reload_rx: "none" | "empty" | "event"
    renderPipelines,    \* render_pipelines: one compiled pipeline object per stage
    segmentationEngine, \* segmentation_engine.is_some()
    outputSize,         \* <<output_width, output_height>>
    videoPending,       \* a video slot still has its 1x1 placeholder texture
    maskTexture,        \* mask_texture
    imageTextures,      \* image_textures (identity of the slots' textures)
    inputTexture,       \* input_texture
    outputTextures,     \* output_textures
    readbackBuffer,     \* size of readback_buffer in bytes (0: None)
    bindGroups,         \* bind_groups
    cachedDims,         \* cached_width, cached_height, cached_mask_width, cached_mask_height
    objCount,           \* GPU objects created so far (object identities)
    pipeFrames,         \* process_frame calls so far
    edits,              \* changes made to watched files so far
    \* ---- history of the pipeline
    dispatched,         \* the mask texture bound at the last dispatch
    outFrame,           \* the frame the last process_frame call returned
    copies,             \* bytes_per_row of the last call's copies, and the texture read back
    \* ---- shared-memory sink (output/virtual_camera_windows.rs)
    shmHandles,         \* who holds a handle on the named region (empty: no region)
    writeIdx,           \* QueueHeader.write_idx
    readIdx,            \* QueueHeader.read_idx
    qState,             \* QueueHeader.state
    slots,              \* the three frame slots: timestamp, Y plane, UV plane
    pubPc,              \* position of each publisher in new / write_frame_internal / drop
    pubInc,             \* inc of each publisher's current write
    pubFrame,           \* the frame each publisher is writing
    pubWrites,          \* completed writes of each publisher
    sinkSeq,            \* frames handed to write_frame so far
    \* ---- live configuration (main.rs, config_utils.rs)
    appMode,            \* args.output: "window" | "virtual-camera"
    appPc,              \* "start" | "check" | "frame" | "exited" | "blocked" | "panicked"
    platform,           \* target_os of the build that runs virtual-camera mode
    instanceLock,       \* INSTANCE_MUTEX is locked (its guard is a field of the output)
    recorded,           \* ConfigWatcher.current_config
    args,               \* args.input, args.width, args.height, args.fps
    capture,            \* capture: the CaptureConfig of the running worker, or NoCapture
    pipeline,           \* pipeline: what the installed pipeline was built from
    sinkConfig,         \* config of the virtual camera output, or NoSink
    frameDuration,      \* frame_duration, as the fps it was computed from
    logs,               \* messages logged by the last step
    \* ---- history of the live configuration
    effective,          \* the configuration in effect: the last one the loop acted on
    lastOld,            \* the configuration in effect before the last step's change
    lastNew,            \* the configuration the last step parsed, or NoConfig
    restarted,          \* the last step dropped the capture worker and opened a new one
    rebuilt,            \* the last step built a new pipeline
    produced,           \* the last tick got a frame from the capture worker
    startOpened,        \* the camera could be opened at startup
    \* ---- frames (frame.rs)
    frm,                \* a VideoFrame: width, height, format, data.len()
    frmFrom,            \* the function that returned it
    frmPanicked,        \* the last conversion panicked
    frmSrc,             \* the frame the last conversion was called on
    frmOps              \* conversions made since the frame was made

capVars == <<oldCapPc, capPc, capFrame, frameSeq, camStuck, sendResult, frameChan, running,
             rxAlive, loopPc, latestFrame, frameOption, tickCount, tickOutcome,
             lastPresented, lastOffered, lastQueued, prevReturned, gotNew, everRecv>>

mlVars == <<mlPc, mlCur, mlFrameChan, maskChan, mlAlive, plPc, mlSeq, accepted,
            pollLatest, maskResult, busyAtSubmit, lastProduced, producedAtPoll, pollCount,
            mlFailed>>

vidVars == <<vidPc, vidChild, vidFrameCount, vidBuf, vidSeq, vidChan, vidStop, vidAlive,
             gfPc, vidStart, vidTime, vidCurrent, vidNext, vidReturned, vidRecvd>>

wpVars == <<wpPc, shaderSources, shaderFiles, reloadRx, renderPipelines, segmentationEngine,
            outputSize, videoPending, maskTexture, imageTextures, inputTexture, outputTextures,
            readbackBuffer, bindGroups, cachedDims, objCount, pipeFrames, edits,
            dispatched, outFrame, copies>>

sinkVars == <<shmHandles, writeIdx, readIdx, qState, slots, pubPc, pubInc, pubFrame,
              pubWrites, sinkSeq>>

\* the components of the output side
cfgVars == <<appMode, appPc, platform, instanceLock, recorded, args, capture, pipeline, sinkConfig, frameDuration,
             logs, effective, lastOld, lastNew, restarted, rebuilt, produced,
             startOpened>>

frmVars == <<frm, frmFrom, frmPanicked, frmSrc, frmOps>>

extVars == <<sinkVars, cfgVars, frmVars>>

coreVars == <<capVars, mlVars, vidVars, wpVars>>

\* everything but the live configuration
loopVars2 == <<coreVars, sinkVars, frmVars>>

vars == <<capVars, mlVars, vidVars, wpVars, extVars>>

\* ---- bounds of the model
MaxFrames == 4      \* frames the camera delivers
MaxTicks == 3       \* ticks of the application loop
MaxRestarts == 1    \* live restarts of the capture
MaxVideoFrames == 6 \* frames read from the decoder subprocesses
MaxTime == 3        \* largest `time` passed to get_frame, in frame durations
MaxPipeFrames == 2  \* process_frame calls
MaxWrites == 2      \* frames each publisher writes
MaxConversions == 2 \* conversions applied to one frame
MaxFieldChanges == 1    \* fields in which a configuration file differs from the startup one
MaxEdits == 1       \* changes made to watched shader files

\* ---- program constants
CaptureChanCap == 2     \* mpsc::sync_channel::<VideoFrame>(2)
MlChanCap == 1          \* mpsc::sync_channel::<VideoFrame>(1)
VideoChanCap == 5       \* mpsc::sync_channel(5)

Last(s) == s[Len(s)]

(***************************************************************************)
(* std::sync::mpsc as used by the capture thread                           *)
(***************************************************************************)
ChanFullOffByOne(ch) == Len(ch) > CaptureChanCap
ChanFull(ch) == Len(ch) >= CaptureChanCap

\* SyncSender::try_send: Disconnected when the receiver is gone, Full when the
\* buffer holds its capacity, Ok otherwise.
TrySendResult(ch, alive) ==
    IF ~alive THEN "disconnected"
    ELSE IF ChanFull(ch) THEN "full"
    ELSE "ok"

\* keep-newest variant: a full hand-off gives up its oldest frame
ChanAfterTrySendKeepNewest(ch, f, alive) ==
    IF ~alive THEN ch
    ELSE IF ChanFull(ch) THEN Append(Tail(ch), f)
    ELSE Append(ch, f)
\* The buffer after try_send: the frame is appended only on Ok; on Full the
\* frame comes back inside the error and is dropped by the caller.
ChanAfterTrySend(ch, f, alive) ==
    IF TrySendResult(ch, alive) = "ok" THEN Append(ch, f) ELSE ch

\* a blocking send waits while the buffer is full and the receiver exists
PublishWaitsForRoom == ~rxAlive \/ ~ChanFull(frameChan)
\* try_send returns at once in every state of the channel
PublishReady == TRUE

\* while-condition variant that never looks at the stop flag
KeepCapturingIgnoringFlag == TRUE
\* while running_clone.load(Ordering::Relaxed)
KeepCapturing == running

(***************************************************************************)
(* Capture thread                                                          *)
(***************************************************************************)
CapInit ==
    /\ capPc = "loop"          \* setup_tx.send(Ok(size)) done, handle returned
    /\ capFrame = 0
    /\ frameSeq = 0
    /\ camStuck = FALSE
    /\ sendResult = "none"
    /\ frameChan = <<>>
    /\ running = TRUE
    /\ rxAlive = TRUE
    /\ loopPc = "tick"
    /\ latestFrame = 0
    /\ frameOption = 0
    /\ tickCount = 0
    /\ tickOutcome = "none"
    /\ lastPresented = 0
    /\ lastOffered = 0
    /\ lastQueued = 0
    /\ prevReturned = 0
    /\ gotNew = FALSE
    /\ everRecv = FALSE
    /\ oldCapPc = <<>>

loopVars == <<loopPc, latestFrame, frameOption, tickCount, tickOutcome,
              lastPresented, prevReturned, gotNew, everRecv>>

\* head of `while running_clone.load(..)`
CheckRunning ==
    /\ capPc = "loop"
    /\ capPc' = IF KeepCapturing THEN "capture" ELSE "done"
    /\ UNCHANGED <<capFrame, frameSeq, camStuck, sendResult, frameChan, running,
                   rxAlive, lastOffered, lastQueued, loopVars>>
    /\ UNCHANGED <<oldCapPc, mlVars, vidVars, wpVars, extVars>>

\* capture.capture_frame() returns Ok(frame)
CaptureOk ==
    /\ capPc = "capture"
    /\ ~camStuck
    /\ frameSeq < MaxFrames
    /\ frameSeq' = frameSeq + 1
    /\ capFrame' = frameSeq + 1
    /\ capPc' = "send"
    /\ UNCHANGED <<camStuck, sendResult, frameChan, running, rxAlive,
                   lastOffered, lastQueued, loopVars>>
    /\ UNCHANGED <<oldCapPc, mlVars, vidVars, wpVars, extVars>>

\* capture.capture_frame() returns Err(e): logged, next iteration
CaptureErr ==
    /\ capPc = "capture"
    /\ ~camStuck
    /\ capPc' = "loop"
    /\ UNCHANGED <<capFrame, frameSeq, camStuck, sendResult, frameChan, running,
                   rxAlive, lastOffered, lastQueued, loopVars>>
    /\ UNCHANGED <<oldCapPc, mlVars, vidVars, wpVars, extVars>>

\* the device stops delivering: capture_frame() does not return any more
CameraStall ==
    /\ ~camStuck
    /\ capPc \in {"loop", "capture", "send"}
    /\ camStuck' = TRUE
    /\ UNCHANGED <<capPc, capFrame, frameSeq, sendResult, frameChan, running,
                   rxAlive, lastOffered, lastQueued, loopVars>>
    /\ UNCHANGED <<oldCapPc, mlVars, vidVars, wpVars, extVars>>

\* match frame_tx.try_send(frame) { Ok | Full => next iteration, Disconnected => break }
Publish ==
    /\ capPc = "send"
    /\ PublishReady
    /\ sendResult' = TrySendResult(frameChan, rxAlive)
    /\ frameChan' = ChanAfterTrySend(frameChan, capFrame, rxAlive)
    /\ capPc' = IF TrySendResult(frameChan, rxAlive) = "disconnected" THEN "done" ELSE "loop"
    /\ lastOffered' = capFrame
    /\ lastQueued' = IF TrySendResult(frameChan, rxAlive) = "ok" THEN capFrame ELSE lastQueued
    /\ capFrame' = 0
    /\ UNCHANGED <<frameSeq, camStuck, running, rxAlive, loopVars>>
    /\ UNCHANGED <<oldCapPc, mlVars, vidVars, wpVars, extVars>>

CaptureThread == CheckRunning \/ CaptureOk \/ CaptureErr \/ Publish

(***************************************************************************)
(* Application loop: one tick of run_virtual_camera_mode                   *)
(***************************************************************************)
threadVars == <<capPc, capFrame, frameSeq, camStuck, sendResult, lastOffered, lastQueued>>

\* self.latest_frame = Some(frame), keeping the first frame instead
LatestAfterRecvKeepFirst(old, f) == IF old = 0 THEN f ELSE old
\* self.latest_frame = Some(frame)
LatestAfterRecv(old, f) == f

\* returning a frame only when this call received one
FrameReturnedFreshOnly == IF gotNew THEN latestFrame ELSE 0
\* self.latest_frame.as_ref()
FrameReturned == latestFrame

\* `if let Some(cap) = &mut capture { cap.get_latest_frame() } else { None }`
TickStart ==
    /\ loopPc = "tick"
    /\ tickCount < MaxTicks
    /\ IF rxAlive
       THEN /\ loopPc' = "drain"
            /\ gotNew' = FALSE
            /\ UNCHANGED <<frameOption, tickOutcome>>
       ELSE /\ loopPc' = "end"
            /\ frameOption' = 0
            /\ tickOutcome' = "skipped"
            /\ UNCHANGED gotNew
    /\ UNCHANGED <<threadVars, frameChan, running, rxAlive, latestFrame, tickCount,
                   lastPresented, prevReturned, everRecv>>
    /\ UNCHANGED <<oldCapPc, mlVars, vidVars, wpVars, extVars>>

\* get_latest_frame: `while let Ok(frame) = self.frame_rx.try_recv()`, body
RecvFrame ==
    /\ loopPc = "drain"
    /\ frameChan # <<>>
    /\ latestFrame' = LatestAfterRecv(latestFrame, Head(frameChan))
    /\ frameChan' = Tail(frameChan)
    /\ gotNew' = TRUE
    /\ everRecv' = TRUE
    /\ UNCHANGED <<threadVars, running, rxAlive, loopPc, frameOption, tickCount,
                   tickOutcome, lastPresented, prevReturned>>
    /\ UNCHANGED <<oldCapPc, mlVars, vidVars, wpVars, extVars>>

\* get_latest_frame: try_recv() finds nothing, the call returns latest_frame;
\* `if let Some(frame) = frame_option` then decides whether the tick runs
GetLatestReturn ==
    /\ loopPc = "drain"
    /\ frameChan = <<>>
    /\ frameOption' = FrameReturned
    /\ prevReturned' = frameOption
    /\ IF FrameReturned = 0
       THEN loopPc' = "end" /\ tickOutcome' = "skipped"
       ELSE loopPc' = "process" /\ UNCHANGED tickOutcome
    /\ UNCHANGED <<threadVars, frameChan, running, rxAlive, latestFrame, tickCount,
                   lastPresented, gotNew, everRecv>>
    /\ UNCHANGED <<oldCapPc, mlVars, vidVars, wpVars, extVars>>

\* pipeline.process_frame(frame, time) is Ok, output.write_frame(&processed)
ProcessOk ==
    /\ loopPc = "process"
    /\ lastPresented' = frameOption
    /\ tickOutcome' = "presented"
    /\ loopPc' = "end"
    /\ UNCHANGED <<threadVars, frameChan, running, rxAlive, latestFrame, frameOption,
                   tickCount, prevReturned, gotNew, everRecv>>
    /\ UNCHANGED <<oldCapPc, mlVars, vidVars, wpVars, extVars>>

\* pipeline.process_frame(frame, time) is Err: logged, nothing is written
ProcessErr ==
    /\ loopPc = "process"
    /\ tickOutcome' = "failed"
    /\ loopPc' = "end"
    /\ UNCHANGED <<threadVars, frameChan, running, rxAlive, latestFrame, frameOption,
                   tickCount, lastPresented, prevReturned, gotNew, everRecv>>
    /\ UNCHANGED <<oldCapPc, mlVars, vidVars, wpVars, extVars>>

\* frame rate limiting, next iteration of the main loop
TickEnd ==
    /\ loopPc = "end"
    /\ tickCount' = tickCount + 1
    /\ tickOutcome' = "none"
    /\ loopPc' = "tick"
    /\ UNCHANGED <<threadVars, frameChan, running, rxAlive, latestFrame, frameOption,
                   lastPresented, prevReturned, gotNew, everRecv>>
    /\ UNCHANGED <<oldCapPc, mlVars, vidVars, wpVars, extVars>>

\* `capture = None`: Drop for AsyncCapture stores running = false, then the
\* fields go, frame_rx and latest_frame among them.  Nothing waits for the thread.
DropCapture ==
    /\ loopPc = "tick"
    /\ rxAlive
    /\ running' = FALSE
    /\ rxAlive' = FALSE
    /\ frameChan' = <<>>
    /\ latestFrame' = 0
    /\ UNCHANGED <<threadVars, loopPc, frameOption, tickCount, tickOutcome,
                   lastPresented, prevReturned, gotNew, everRecv>>
    /\ UNCHANGED <<oldCapPc, mlVars, vidVars, wpVars, extVars>>

\* a live restart up to the wait of AsyncCapture::new: `capture = None` (Drop for
\* AsyncCapture stores running = false and the fields go; nothing waits for the
\* old thread, which runs on with its own flag and its disconnected sender), then
\* init_capture_with_retry -> AsyncCapture::new makes a new channel and a new
\* flag, spawns the new thread, which begins with NokhwaCapture::open, and waits
\* in setup_rx.recv().  frame_option of the last iteration is out of scope.
RestartCapture ==
    /\ loopPc = "tick"
    /\ Len(oldCapPc) < MaxRestarts
    /\ oldCapPc' = Append(oldCapPc, IF camStuck /\ capPc = "capture" THEN "stuck" ELSE capPc)
    /\ capPc' = "opening"
    /\ capFrame' = 0
    /\ camStuck' = FALSE
    /\ sendResult' = "none"
    /\ lastOffered' = 0
    /\ lastQueued' = 0
    /\ running' = TRUE
    /\ rxAlive' = FALSE
    /\ frameChan' = <<>>
    /\ latestFrame' = 0
    /\ frameOption' = 0
    /\ prevReturned' = 0
    /\ gotNew' = FALSE
    /\ everRecv' = FALSE
    /\ loopPc' = "setup"
    /\ UNCHANGED <<frameSeq, tickCount, tickOutcome, lastPresented>>
    /\ UNCHANGED <<mlVars, vidVars, wpVars, extVars>>

\* the new thread: NokhwaCapture::open(config) returns; setup_tx.send of the
\* result wakes AsyncCapture::new: Ok gives `capture = Some(new_capture)` and the
\* thread enters its loop, Err ends the thread and leaves capture None
OpenCamera ==
    /\ capPc = "opening"
    /\ loopPc = "setup"
    /\ \E ok \in BOOLEAN :
          /\ capPc' = IF ok THEN "loop" ELSE "done"
          /\ rxAlive' = ok
    /\ loopPc' = "tick"
    /\ UNCHANGED <<oldCapPc, capFrame, frameSeq, camStuck, sendResult, lastOffered,
                   lastQueued, frameChan, running, latestFrame, frameOption, tickCount,
                   tickOutcome, lastPresented, prevReturned, gotNew, everRecv>>
    /\ UNCHANGED <<mlVars, vidVars, wpVars, extVars>>

\* a step of the thread of a dropped capture: its flag is false and its receiver
\* is gone, so the head of the loop ends it, capture_frame returns Ok or Err, and
\* try_send is Disconnected and breaks
OldThreadStep(i) ==
    /\ oldCapPc[i] \in {"loop", "capture", "send"}
    /\ \E ok \in BOOLEAN :
          oldCapPc' = [oldCapPc EXCEPT ![i] =
                          IF oldCapPc[i] = "capture" THEN (IF ok THEN "send" ELSE "loop")
                          ELSE "done"]
    /\ UNCHANGED <<threadVars, loopVars, frameChan, running, rxAlive>>
    /\ UNCHANGED <<mlVars, vidVars, wpVars, extVars>>

OldThread == \E i \in 1..MaxRestarts : i <= Len(oldCapPc) /\ OldThreadStep(i)

AppLoop == TickStart \/ RecvFrame \/ GetLatestReturn \/ ProcessOk \/ ProcessErr
           \/ TickEnd \/ DropCapture

CapNext ==
    \/ CheckRunning
    \/ CaptureOk
    \/ CaptureErr
    \/ CameraStall
    \/ Publish
    \/ TickStart
    \/ RecvFrame
    \/ GetLatestReturn
    \/ ProcessOk
    \/ ProcessErr
    \/ TickEnd
    \/ DropCapture
    \/ RestartCapture
    \/ OpenCamera
    \/ OldThread

(***************************************************************************)
(* Segmentation worker (ml/mod.rs) and its two calls in process_frame      *)
(***************************************************************************)
MlInit ==
    /\ mlPc = "recv"
    /\ mlCur = 0
    /\ mlFrameChan = <<>>
    /\ maskChan = <<>>
    /\ mlAlive = TRUE
    /\ plPc = "submit"
    /\ mlSeq = 0
    /\ accepted = FALSE
    /\ pollLatest = 0
    /\ maskResult = 0
    /\ busyAtSubmit = FALSE
    /\ lastProduced = 0
    /\ producedAtPoll = 0
    /\ pollCount = 0
    /\ mlFailed = {}

\* a frame buffer without a capacity
MlChanFullNever(ch) == FALSE
\* sync_channel(1): try_send finds the buffer full
MlChanFull(ch) == Len(ch) >= MlChanCap

workerVars == <<mlPc, mlCur>>
callerVars == <<plPc, mlSeq, accepted, pollLatest, maskResult, busyAtSubmit,
                producedAtPoll, pollCount>>

\* `while let Ok(frame) = frame_rx.recv()`: a frame is waiting
WorkerRecv ==
    /\ mlPc = "recv"
    /\ mlFrameChan # <<>>
    /\ mlCur' = Head(mlFrameChan)
    /\ mlFrameChan' = Tail(mlFrameChan)
    /\ mlPc' = "predict"
    /\ UNCHANGED <<maskChan, mlAlive, lastProduced, mlFailed, callerVars>>
    /\ UNCHANGED <<capVars, vidVars, wpVars, extVars>>

\* recv() is Err: the buffer is empty and frame_tx is gone
WorkerDisconnected ==
    /\ mlPc = "recv"
    /\ mlFrameChan = <<>>
    /\ ~mlAlive
    /\ mlPc' = "done"
    /\ UNCHANGED <<mlCur, mlFrameChan, maskChan, mlAlive, lastProduced, mlFailed, callerVars>>
    /\ UNCHANGED <<capVars, vidVars, wpVars, extVars>>

\* engine.predict(&frame) is Ok(result): mask_tx.send(result), break if it fails
PredictOk ==
    /\ mlPc = "predict"
    /\ IF mlAlive
       THEN /\ maskChan' = Append(maskChan, mlCur)
            /\ lastProduced' = mlCur
            /\ mlPc' = "recv"
       ELSE /\ mlPc' = "done"
            /\ UNCHANGED <<maskChan, lastProduced>>
    /\ mlCur' = 0
    /\ UNCHANGED <<mlFrameChan, mlAlive, mlFailed, callerVars>>
    /\ UNCHANGED <<capVars, vidVars, wpVars, extVars>>

\* `Err(e) => warn!(...)` followed by `break`
AfterPredictErrBreaks == "done"
\* `Err(e) => warn!(...)`: the match arm ends, the loop goes back to recv()
AfterPredictErr == "recv"

\* engine.predict(&frame) is Err(e): warn!, next iteration
PredictErr ==
    /\ mlPc = "predict"
    /\ mlPc' = AfterPredictErr
    /\ mlCur' = 0
    /\ mlFailed' = mlFailed \cup {mlCur}
    /\ UNCHANGED <<mlFrameChan, maskChan, mlAlive, lastProduced, callerVars>>
    /\ UNCHANGED <<capVars, vidVars, wpVars, extVars>>

\* self.frame_tx.try_send(frame): Ok(_) => true, Err(e) => false
TryPredictResult(ch) == ~MlChanFull(ch)

\* process_frame step 1: engine.try_predict(rgba_input.clone());
\* step 2 begins: `let mut latest = None`
TryPredict ==
    /\ plPc = "submit"
    /\ mlAlive
    /\ mlSeq < MaxFrames
    /\ mlSeq' = mlSeq + 1
    /\ accepted' = TryPredictResult(mlFrameChan)
    /\ mlFrameChan' = IF TryPredictResult(mlFrameChan)
                      THEN Append(mlFrameChan, mlSeq + 1) ELSE mlFrameChan
    /\ busyAtSubmit' = (mlPc = "predict")
    /\ pollLatest' = 0
    /\ pollCount' = 0
    /\ plPc' = "poll"
    /\ UNCHANGED <<workerVars, maskChan, mlAlive, maskResult, lastProduced, producedAtPoll,
                   mlFailed>>
    /\ UNCHANGED <<capVars, vidVars, wpVars, extVars>>

\* latest = Some(result), keeping the first result instead
PollLatestAfterRecvKeepFirst(old, m) == IF old = 0 THEN m ELSE old
\* latest = Some(result)
PollLatestAfterRecv(old, m) == m

\* poll_result: `while let Ok(result) = self.mask_rx.try_recv()`, body
PollRecv ==
    /\ plPc = "poll"
    /\ maskChan # <<>>
    /\ pollLatest' = PollLatestAfterRecv(pollLatest, Head(maskChan))
    /\ maskChan' = Tail(maskChan)
    /\ pollCount' = pollCount + 1
    /\ UNCHANGED <<workerVars, mlFrameChan, mlAlive, plPc, mlSeq, accepted, maskResult,
                   busyAtSubmit, lastProduced, producedAtPoll, mlFailed>>
    /\ UNCHANGED <<capVars, vidVars, wpVars, extVars>>

\* poll_result: try_recv() finds nothing, the call returns `latest`
PollReturn ==
    /\ plPc = "poll"
    /\ maskChan = <<>>
    /\ maskResult' = pollLatest
    /\ producedAtPoll' = lastProduced
    /\ plPc' = "submit"
    /\ UNCHANGED <<workerVars, mlFrameChan, maskChan, mlAlive, mlSeq, accepted,
                   pollLatest, busyAtSubmit, lastProduced, pollCount, mlFailed>>
    /\ UNCHANGED <<capVars, vidVars, wpVars, extVars>>

\* the pipeline is dropped: frame_tx and mask_rx go with the engine
DropEngine ==
    /\ plPc = "submit"
    /\ mlAlive
    /\ mlAlive' = FALSE
    /\ maskChan' = <<>>
    /\ UNCHANGED <<workerVars, mlFrameChan, lastProduced, mlFailed, callerVars>>
    /\ UNCHANGED <<capVars, vidVars, wpVars, extVars>>

MlNext ==
    \/ WorkerRecv
    \/ WorkerDisconnected
    \/ PredictOk
    \/ PredictErr
    \/ TryPredict
    \/ PollRecv
    \/ PollReturn
    \/ DropEngine

(***************************************************************************)
(* Auxiliary video decoder (video/mod.rs)                                  *)
(***************************************************************************)
NoTime == -1
NoFrame == [id |-> 0, ts |-> 0]

VidInit ==
    /\ vidPc = "outer"
    /\ vidChild = "none"
    /\ vidFrameCount = 0
    /\ vidBuf = NoFrame
    /\ vidSeq = 0
    /\ vidChan = <<>>
    /\ vidStop = FALSE
    /\ vidAlive = TRUE
    /\ gfPc = "idle"
    /\ vidStart = NoTime
    /\ vidTime = 0
    /\ vidCurrent = NoFrame
    /\ vidNext = NoFrame
    /\ vidReturned = NoFrame
    /\ vidRecvd = <<>>

playerVars == <<gfPc, vidStart, vidTime, vidCurrent, vidNext, vidReturned, vidRecvd>>

\* outer loop: `if *stop_signal.lock().unwrap() { return; }`
DecodeCheckStop ==
    /\ vidPc = "outer"
    /\ vidPc' = IF vidStop THEN "done" ELSE "spawn"
    /\ UNCHANGED <<vidChild, vidFrameCount, vidBuf, vidSeq, vidChan, vidStop, vidAlive,
                   playerVars>>
    /\ UNCHANGED <<capVars, mlVars, wpVars, extVars>>

\* Command::new("ffmpeg")...spawn() is Ok(c); frame_count = 0
SpawnOk ==
    /\ vidPc = "spawn"
    /\ vidChild' = "running"
    /\ vidFrameCount' = 0
    /\ vidPc' = "inner"
    /\ UNCHANGED <<vidBuf, vidSeq, vidChan, vidStop, vidAlive, playerVars>>
    /\ UNCHANGED <<capVars, mlVars, wpVars, extVars>>

\* spawn() is Err(e): error!, then thread::sleep(1 s)
SpawnErr ==
    /\ vidPc = "spawn"
    /\ vidPc' = "sleep"
    /\ UNCHANGED <<vidChild, vidFrameCount, vidBuf, vidSeq, vidChan, vidStop, vidAlive,
                   playerVars>>
    /\ UNCHANGED <<capVars, mlVars, wpVars, extVars>>

\* the sleep ends: `continue`
SleepDone ==
    /\ vidPc = "sleep"
    /\ vidPc' = "outer"
    /\ UNCHANGED <<vidChild, vidFrameCount, vidBuf, vidSeq, vidChan, vidStop, vidAlive,
                   playerVars>>
    /\ UNCHANGED <<capVars, mlVars, wpVars, extVars>>

\* inner loop: `if *stop_signal.lock().unwrap() { let _ = child.kill(); return; }`
ReadCheckStop ==
    /\ vidPc = "inner"
    /\ IF vidStop
       THEN vidPc' = "done" /\ vidChild' = "killed"
       ELSE vidPc' = "read" /\ UNCHANGED vidChild
    /\ UNCHANGED <<vidFrameCount, vidBuf, vidSeq, vidChan, vidStop, vidAlive, playerVars>>
    /\ UNCHANGED <<capVars, mlVars, wpVars, extVars>>

\* stdout.read_exact(&mut buffer) is Ok: timestamp = frame_count * frame_duration
\* (time is counted in frame durations), frame_count += 1
ReadFrame ==
    /\ vidPc = "read"
    /\ vidSeq < MaxVideoFrames
    /\ vidSeq' = vidSeq + 1
    /\ vidBuf' = [id |-> vidSeq + 1, ts |-> vidFrameCount]
    /\ vidFrameCount' = vidFrameCount + 1
    /\ vidPc' = "send"
    /\ UNCHANGED <<vidChild, vidChan, vidStop, vidAlive, playerVars>>
    /\ UNCHANGED <<capVars, mlVars, wpVars, extVars>>

\* read_exact is Err (end of stream or another error): break
ReadEnd ==
    /\ vidPc = "read"
    /\ vidPc' = "wait"
    /\ UNCHANGED <<vidChild, vidFrameCount, vidBuf, vidSeq, vidChan, vidStop, vidAlive,
                   playerVars>>
    /\ UNCHANGED <<capVars, mlVars, wpVars, extVars>>

\* a send that returns at once, whatever the buffer holds
SendReturnsAtOnce(ch, alive) == TRUE
\* SyncSender::send returns once there is room or the receiver is gone
SendReturns(ch, alive) == ~alive \/ Len(ch) < VideoChanCap

\* `if tx.send(decoded).is_err() { let _ = child.kill(); return; }`
SendFrame ==
    /\ vidPc = "send"
    /\ SendReturns(vidChan, vidAlive)
    /\ IF vidAlive
       THEN /\ vidChan' = Append(vidChan, vidBuf)
            /\ vidPc' = "inner"
            /\ UNCHANGED vidChild
       ELSE /\ vidPc' = "done"
            /\ vidChild' = "killed"
            /\ UNCHANGED vidChan
    /\ vidBuf' = NoFrame
    /\ UNCHANGED <<vidFrameCount, vidSeq, vidStop, vidAlive, playerVars>>
    /\ UNCHANGED <<capVars, mlVars, wpVars, extVars>>

\* `let _ = child.wait();` then the outer loop starts the subprocess again
WaitChild ==
    /\ vidPc = "wait"
    /\ vidChild' = "none"
    /\ vidPc' = "outer"
    /\ UNCHANGED <<vidFrameCount, vidBuf, vidSeq, vidChan, vidStop, vidAlive, playerVars>>
    /\ UNCHANGED <<capVars, mlVars, wpVars, extVars>>

DecodeThread ==
    \/ DecodeCheckStop
    \/ SpawnOk
    \/ SpawnErr
    \/ SleepDone
    \/ ReadCheckStop
    \/ ReadFrame
    \/ ReadEnd
    \/ SendFrame
    \/ WaitChild

decodeVars == <<vidPc, vidChild, vidFrameCount, vidBuf, vidSeq, vidStop>>

\* `frame.timestamp <= playback_time` without the comparison: always ready
FrameDueAlways(f, time, start) == TRUE
\* `frame.timestamp <= playback_time`, playback_time = time - start_time
FrameDue(f, time, start) == f.ts <= time - start

\* get_frame(time) up to its first try_recv: start_time, playback_time and
\* step 1, "check if next_frame is ready to be shown"
GetFrameCall ==
    /\ gfPc = "idle"
    /\ vidAlive
    /\ \E t \in vidTime..MaxTime :
        /\ vidTime' = t
        /\ vidStart' = IF vidStart = NoTime THEN t ELSE vidStart
        /\ IF vidNext = NoFrame
           THEN /\ gfPc' = "drain"
                /\ UNCHANGED <<vidCurrent, vidNext, vidReturned>>
           ELSE IF FrameDue(vidNext, t, vidStart')
           THEN /\ vidCurrent' = vidNext
                /\ vidNext' = NoFrame
                /\ gfPc' = "drain"
                /\ UNCHANGED vidReturned
           ELSE /\ vidReturned' = vidCurrent
                /\ UNCHANGED <<gfPc, vidCurrent, vidNext>>
    /\ UNCHANGED <<decodeVars, vidChan, vidAlive, vidRecvd>>
    /\ UNCHANGED <<capVars, mlVars, wpVars, extVars>>

\* step 2, try_recv() is Ok(frame): current if its time has come, else next
GetFrameRecv ==
    /\ gfPc = "drain"
    /\ vidChan # <<>>
    /\ vidChan' = Tail(vidChan)
    /\ vidRecvd' = Append(vidRecvd, Head(vidChan))
    /\ IF FrameDue(Head(vidChan), vidTime, vidStart)
       THEN /\ vidCurrent' = Head(vidChan)
            /\ UNCHANGED <<gfPc, vidNext, vidReturned>>
       ELSE /\ vidNext' = Head(vidChan)
            /\ vidReturned' = vidCurrent
            /\ gfPc' = "idle"
            /\ UNCHANGED vidCurrent
    /\ UNCHANGED <<decodeVars, vidAlive, vidStart, vidTime>>
    /\ UNCHANGED <<capVars, mlVars, wpVars, extVars>>

\* step 2, try_recv() is Err (Empty or Disconnected): break
GetFrameEmpty ==
    /\ gfPc = "drain"
    /\ vidChan = <<>>
    /\ vidReturned' = vidCurrent
    /\ gfPc' = "idle"
    /\ UNCHANGED <<decodeVars, vidChan, vidAlive, vidStart, vidTime, vidCurrent, vidNext,
                   vidRecvd>>
    /\ UNCHANGED <<capVars, mlVars, wpVars, extVars>>

\* the VideoPlayer is dropped with its TextureSlot: there is no Drop impl, so
\* the fields just go (frame_rx, the detached JoinHandle, the Arc of the flag)
DropVideoPlayer ==
    /\ gfPc = "idle"
    /\ vidAlive
    /\ vidAlive' = FALSE
    /\ vidChan' = <<>>
    /\ vidCurrent' = NoFrame
    /\ vidNext' = NoFrame
    /\ vidRecvd' = <<>>
    /\ UNCHANGED <<decodeVars, gfPc, vidStart, vidTime, vidReturned>>
    /\ UNCHANGED <<capVars, mlVars, wpVars, extVars>>

VidNext ==
    \/ DecodeThread
    \/ GetFrameCall
    \/ GetFrameRecv
    \/ GetFrameEmpty
    \/ DropVideoPlayer

(***************************************************************************)
(* WgpuPipeline (shader/wgpu_pipeline.rs)                                  *)
(*                                                                         *)
(* A shader's code is abstracted to what the pipeline asks of it: whether  *)
(* it declares a global at group 0, binding 3 (bindsMask) and whether it   *)
(* parses and validates (valid).  WGSL sources are taken to be valid WGSL. *)
(* GPU objects are identified by their creation number.                    *)
(***************************************************************************)
Codes == [bindsMask : BOOLEAN, valid : BOOLEAN]
ShaderSourceSet ==
    {src \in [kind : {"glsl", "wgsl"}, hasPath : BOOLEAN, code : Codes] :
        src.kind = "wgsl" => src.code.valid}
StageCounts == 0..2
ShaderLists == UNION {[1..n -> ShaderSourceSet] : n \in StageCounts}
OutputSizes == {<<64, 2>>, <<100, 1>>}
InputSizes == {<<64, 2>>, <<32, 1>>}
NoMask == <<0, 0>>
NoFile == [readable |-> FALSE, code |-> [bindsMask |-> FALSE, valid |-> FALSE]]
NoTexture == [obj |-> 0, w |-> 0, h |-> 0]
NoOutFrame == [fmt |-> "none", w |-> 0, h |-> 0, len |-> 0]
NoDispatch == [obj |-> 0, w |-> 0, h |-> 0, val |-> "none"]
NoCopies == [camera |-> 0, mask |-> 0, video |-> 0, readback |-> 0, from |-> 0]
VideoWidths == {48}

\* wgpu hands out textures with every texel zero
FreshTexel == "0"

\* glsl_to_wgsl: Err unless the code parses and validates; uses_mask by reflection
GlslToWgsl(code) == [ok |-> code.valid, usesMask |-> code.bindsMask]
\* wgsl_uses_mask: false when the code does not parse
WgslUsesMask(code) == code.valid /\ code.bindsMask

UsesMask(src) ==
    IF src.kind = "glsl" THEN GlslToWgsl(src.code).usesMask ELSE WgslUsesMask(src.code)

\* needs_segmentation set for every non-empty shader list
NeedsSegmentationAnyShader(shaders) == shaders # <<>>
\* `if uses_mask { needs_segmentation = true; }` over the shaders
NeedsSegmentation(shaders) == \E i \in 1..Len(shaders) : UsesMask(shaders[i])

\* every `Self::glsl_to_wgsl(&glsl)?` of new succeeds
TranslationOk(shaders) ==
    \A i \in 1..Len(shaders) : shaders[i].kind = "glsl" => GlslToWgsl(shaders[i].code).ok

WpInit ==
    /\ wpPc = "new"
    /\ shaderSources = <<>>
    /\ shaderFiles = <<>>
    /\ reloadRx = "none"
    /\ renderPipelines = <<>>
    /\ segmentationEngine = FALSE
    /\ outputSize = <<0, 0>>
    /\ videoPending = FALSE
    /\ maskTexture = NoDispatch
    /\ imageTextures = 0
    /\ inputTexture = NoTexture
    /\ outputTextures = <<>>
    /\ readbackBuffer = 0
    /\ bindGroups = <<>>
    /\ cachedDims = [w |-> 0, h |-> 0, mw |-> 0, mh |-> 0]
    /\ objCount = 0
    /\ pipeFrames = 0
    /\ edits = 0
    /\ dispatched = NoDispatch
    /\ outFrame = NoOutFrame
    /\ copies = NoCopies

\* WgpuPipeline::new returns Ok(Self { .. }); the file watcher could be created
NewOk ==
    /\ wpPc = "new"
    /\ \E shaders \in ShaderLists, size \in OutputSizes, video \in BOOLEAN :
        /\ TranslationOk(shaders)
        /\ LET n == IF shaders = <<>> THEN 1 ELSE Len(shaders)
               engine == NeedsSegmentation(shaders)
           IN /\ shaderSources' = shaders
              /\ shaderFiles' = [i \in 1..Len(shaders) |->
                                    IF shaders[i].hasPath
                                    THEN [readable |-> TRUE, code |-> shaders[i].code]
                                    ELSE NoFile]
              /\ renderPipelines' = [i \in 1..n |->
                                       [obj |-> i,
                                        bindsMask |-> IF shaders = <<>> THEN FALSE
                                                      ELSE shaders[i].code.bindsMask]]
              /\ segmentationEngine' = engine
              /\ maskTexture' = [obj |-> n + 1,
                                 w |-> IF engine THEN size[1] ELSE 1,
                                 h |-> IF engine THEN size[2] ELSE 1,
                                 val |-> IF engine /\ size # <<1, 1>> THEN "partial" ELSE "255"]
              /\ imageTextures' = n + 2
              /\ objCount' = n + 2
              /\ reloadRx' = IF shaders # <<>> THEN "empty" ELSE "none"
        /\ outputSize' = size
        /\ videoPending' = video
    /\ wpPc' = "idle"
    /\ UNCHANGED <<inputTexture, outputTextures, readbackBuffer, bindGroups, cachedDims,
                   pipeFrames, edits, dispatched, outFrame, copies>>
    /\ UNCHANGED <<capVars, mlVars, vidVars, extVars>>

\* WgpuPipeline::new returns Err: no adapter or device, a GLSL shader that does
\* not translate, or AsyncSegmentationEngine::new()? failing
NewErr ==
    /\ wpPc = "new"
    /\ wpPc' = "failed"
    /\ UNCHANGED <<shaderSources, shaderFiles, reloadRx, renderPipelines, segmentationEngine,
                   outputSize, videoPending, maskTexture, imageTextures, inputTexture,
                   outputTextures, readbackBuffer, bindGroups, cachedDims, objCount,
                   pipeFrames, edits, dispatched, outFrame, copies>>
    /\ UNCHANGED <<capVars, mlVars, vidVars, extVars>>

\* what a watched file of a stage may hold after a change: any code of the
\* stage's language, or nothing that can be read
FileStates(src) ==
    {NoFile} \cup {[readable |-> TRUE, code |-> c] :
                      c \in {c \in Codes : src.kind = "wgsl" => c.valid}}

\* somebody saves a watched shader file (or makes it unreadable), and the
\* watcher sends a Modify event
EditFile ==
    /\ wpPc = "idle"
    /\ edits < MaxEdits
    /\ reloadRx # "none"
    /\ \E i \in 1..Len(shaderSources) :
        /\ shaderSources[i].hasPath
        /\ \E f \in FileStates(shaderSources[i]) :
              shaderFiles' = [shaderFiles EXCEPT ![i] = f]
    /\ reloadRx' = "event"
    /\ edits' = edits + 1
    /\ UNCHANGED <<wpPc, shaderSources, renderPipelines, segmentationEngine, outputSize,
                   videoPending, maskTexture, imageTextures, inputTexture, outputTextures,
                   readbackBuffer, bindGroups, cachedDims, objCount, pipeFrames,
                   dispatched, outFrame, copies>>
    /\ UNCHANGED <<capVars, mlVars, vidVars, extVars>>

\* `ShaderSource::Glsl { path: Some(p), .. } | Wgsl { path: Some(p), .. }`, `_ => continue`
Reloadable(src) == src.hasPath

\* `*c = code.clone()` once the file has been read
SourceAfterReload(src, file) ==
    IF Reloadable(src) /\ file.readable THEN [src EXCEPT !.code = file.code] ELSE src

\* every stage gets a new pipeline object, file-backed or not
StageAfterReloadAll(old, src, file, obj) ==
    IF ~Reloadable(src) \/ ~file.readable THEN [old EXCEPT !.obj = obj]
    ELSE IF src.kind = "glsl" /\ ~GlslToWgsl(file.code).ok THEN [old EXCEPT !.obj = obj]
    ELSE [obj |-> obj, bindsMask |-> file.code.bindsMask]
\* the stage's pipeline is replaced whatever the read and the translation gave
StageAfterReloadAlways(old, src, file, obj) ==
    IF ~Reloadable(src) THEN old
    ELSE [obj |-> obj, bindsMask |-> file.readable /\ file.code.valid /\ file.code.bindsMask]
\* one iteration of the loop over shader_sources: `continue` when the file
\* cannot be read or the GLSL does not translate, else render_pipelines[i] is replaced
StageAfterReload(old, src, file, obj) ==
    IF ~Reloadable(src) THEN old
    ELSE IF ~file.readable THEN old
    ELSE IF src.kind = "glsl" /\ ~GlslToWgsl(file.code).ok THEN old
    ELSE [obj |-> obj,
          bindsMask |-> (SourceAfterReload(src, file)).code.bindsMask]

\* process_frame begins: self.check_reload()
CheckReload ==
    /\ wpPc = "idle"
    /\ pipeFrames < MaxPipeFrames
    /\ wpPc' = "frame"
    /\ IF reloadRx = "event"
       THEN /\ reloadRx' = "empty"
            /\ shaderSources' = [i \in 1..Len(shaderSources) |->
                                    SourceAfterReload(shaderSources[i], shaderFiles[i])]
            /\ renderPipelines' = [i \in 1..Len(renderPipelines) |->
                                     IF i <= Len(shaderSources)
                                     THEN StageAfterReload(renderPipelines[i], shaderSources[i],
                                                           shaderFiles[i], objCount + i)
                                     ELSE renderPipelines[i]]
            /\ objCount' = objCount + Len(shaderSources)
       ELSE UNCHANGED <<reloadRx, shaderSources, renderPipelines, objCount>>
    /\ UNCHANGED <<shaderFiles, segmentationEngine, outputSize, videoPending, maskTexture,
                   imageTextures, inputTexture, outputTextures, readbackBuffer, bindGroups,
                   cachedDims, pipeFrames, edits, dispatched, outFrame, copies>>
    /\ UNCHANGED <<capVars, mlVars, vidVars, extVars>>

\* the per-frame resources as one value
Resources ==
    [mask |-> maskTexture, input |-> inputTexture, outputs |-> outputTextures,
     readback |-> readbackBuffer, groups |-> bindGroups, cached |-> cachedDims,
     count |-> objCount]

\* the readback buffer sized after the camera frame
ReadbackSizeOfInput(ow, oh, w, h) == w * h * 4
\* `(self.output_width * self.output_height * 4) as wgpu::BufferAddress`
ReadbackSize(ow, oh, w, h) == ow * oh * 4

\* the early return of ensure_resources never taken
CacheValidNever(r, w, h, mw, mh) == FALSE
\* `self.cached_width == width && self.cached_height == height &&
\*  self.cached_mask_width == mask_w && self.cached_mask_height == mask_h`
CacheValid(r, w, h, mw, mh) == r.cached = [w |-> w, h |-> h, mw |-> mw, mh |-> mh]

\* every stage samples its own output texture
StageInputOwn(i, input, outputs) == outputs[i].obj
\* binding 0 of stage i (counted from 1): `if i == 0 { input_texture } else
\* { output_textures[i-1] }`
StageInput(i, input, outputs) == IF i = 1 THEN input.obj ELSE outputs[i - 1].obj

\* ensure_resources(width, height, mask_w, mask_h) with n render pipelines,
\* output size <<ow, oh>> and image textures img
EnsureResources(r, w, h, mw, mh, n, ow, oh, img) ==
    IF CacheValid(r, w, h, mw, mh) THEN r
    ELSE LET c == r.count
             mask == IF r.cached.mw # mw \/ r.cached.mh # mh
                     THEN [obj |-> c + 1, w |-> mw, h |-> mh, val |-> FreshTexel]
                     ELSE r.mask
             input == [obj |-> c + 2, w |-> w, h |-> h]
             outputs == [i \in 1..n |-> [obj |-> c + 2 + i, w |-> ow, h |-> oh]]
         IN [mask |-> mask,
             input |-> input,
             outputs |-> outputs,
             readback |-> ReadbackSize(ow, oh, w, h),
             groups |-> [i \in 1..n |->
                           [obj |-> c + 2 + n + i,
                            input |-> StageInput(i, input, outputs),
                            mask |-> mask.obj,
                            images |-> img]],
             cached |-> [w |-> w, h |-> h, mw |-> mw, mh |-> mh],
             count |-> c + 2 + 2 * n]

\* `let align_mask = 255;`
AlignMask == 255
\* the row alignment of buffer-texture copies
RowAlignment == AlignMask + 1

\* mask upload: `padded_width = (w as usize + align_mask) & !align_mask`,
\* bytes_per_row: Some(padded_width as u32)
MaskBytesPerRow(w) == ((w + AlignMask) \div RowAlignment) * RowAlignment
\* camera upload: bytes_per_row: Some(rgba_input.width * 4)
CameraBytesPerRow(w) == w * 4
\* video upload: bytes_per_row: Some(frame.width * 4)
VideoBytesPerRow(w) == w * 4
\* readback copy: bytes_per_row: Some(self.output_width * 4)
ReadbackBytesPerRow(ow) == ow * 4

\* `if mask_w == 0 { 1 } else { mask_w }`
FinalMaskDim(d) == IF d = 0 THEN 1 ELSE d

\* process_frame after check_reload: try_predict and poll_result (the mask the
\* worker has ready, if any, is an input: it has the size of this frame or of
\* the one before), ensure_resources, mask upload, video textures (the first
\* video frame resizes the slot's placeholder: the cache is rebuilt; later
\* video frames have the same width), camera upload, dispatch, readback from
\* output_textures.last(); the call returns Ok(VideoFrame::from_data(..))
FrameBody ==
    /\ wpPc = "frame"
    /\ \E in \in InputSizes : \E
          maskResult_ \in (IF segmentationEngine
                           THEN {NoMask, in} \cup
                                (IF cachedDims.w # 0 THEN {<<cachedDims.w, cachedDims.h>>} ELSE {})
                           ELSE {NoMask}),
          resized \in (IF videoPending THEN BOOLEAN ELSE {FALSE}),
          vw \in VideoWidths :
        LET mw == FinalMaskDim(IF maskResult_ # NoMask THEN maskResult_[1] ELSE cachedDims.mw)
            mh == FinalMaskDim(IF maskResult_ # NoMask THEN maskResult_[2] ELSE cachedDims.mh)
            n == Len(renderPipelines)
        IN \E r1 \in {EnsureResources(Resources, in[1], in[2], mw, mh, n,
                                      outputSize[1], outputSize[2], imageTextures)} :
           \E r2 \in {IF maskResult_ # NoMask THEN [r1 EXCEPT !.mask.val = "mask"] ELSE r1} :
           \E img \in {IF resized THEN r2.count + 1 ELSE imageTextures} :
           \E r3 \in {IF resized
                      THEN EnsureResources([r2 EXCEPT !.cached.w = 0, !.count = r2.count + 1],
                                           in[1], in[2], mw, mh, n,
                                           outputSize[1], outputSize[2], img)
                      ELSE r2} :
           /\ maskTexture' = r3.mask
           /\ imageTextures' = img
           /\ inputTexture' = r3.input
           /\ outputTextures' = r3.outputs
           /\ readbackBuffer' = r3.readback
           /\ bindGroups' = r3.groups
           /\ cachedDims' = r3.cached
           /\ objCount' = r3.count
           /\ dispatched' = IF r3.groups[1].mask = r3.mask.obj THEN r3.mask
                            ELSE [r3.mask EXCEPT !.val = "stale"]
           /\ outFrame' = [fmt |-> "rgba", w |-> outputSize[1], h |-> outputSize[2],
                           len |-> r3.readback]
           /\ copies' = [camera |-> CameraBytesPerRow(in[1]),
                         mask |-> IF maskResult_ # NoMask
                                  THEN MaskBytesPerRow(maskResult_[1]) ELSE 0,
                         video |-> IF resized THEN VideoBytesPerRow(vw) ELSE copies.video,
                         readback |-> ReadbackBytesPerRow(outputSize[1]),
                         from |-> r3.outputs[n].obj]
           /\ videoPending' = (videoPending /\ ~resized)
    /\ pipeFrames' = pipeFrames + 1
    /\ wpPc' = "idle"
    /\ UNCHANGED <<shaderSources, shaderFiles, reloadRx, renderPipelines, segmentationEngine,
                   outputSize, edits>>
    /\ UNCHANGED <<capVars, mlVars, vidVars, extVars>>

WpNext ==
    \/ NewOk
    \/ NewErr
    \/ EditFile
    \/ CheckReload
    \/ FrameBody


(***************************************************************************)
(* Shared-memory sink (output/virtual_camera_windows.rs).                  *)
(*                                                                         *)
(* The region is a named kernel object: it exists while somebody holds a   *)
(* handle on it and is zero-filled when it is created.  A publisher is a   *)
(* process that runs VirtualCameraOutput::new, writes frames and drops the *)
(* sink; the reader is the virtual camera filter of a consuming            *)
(* application.  Frames are identified by their number (1, 2, ...); a      *)
(* plane that holds 0 holds no frame.  Every access to the region is one   *)
(* step.                                                                   *)
(***************************************************************************)
Pubs == {1, 2}

Reader == 0

NumSlots == 3

TicksPerMicro == 10

QueueStates == {"invalid", "starting", "ready", "stopping"}

\* the content of a region the system has just created: all bytes zero
ZeroSlots == [i \in 0..(NumSlots - 1) |-> [ts |-> 0, y |-> 0, uv |-> 0]]

\* idx of write_frame_internal
WriteSlot(inc) == inc % NumSlots

\* timestamp_us: None
NoTimestamp == -1

\* timestamp_us of frame f: VideoFrame::new and from_data give None, the
\* conversions copy the source's, and nothing in the program assigns the field
TimestampUs(f) == NoTimestamp

\* frame.timestamp_us.unwrap_or(0) * 10, in units of 100 ns
SlotTimestamp(timestamp_us) ==
    (IF timestamp_us = NoTimestamp THEN 0 ELSE timestamp_us) * TicksPerMicro

RegionExists == shmHandles # {}

\* the system destroys the region when its last handle is closed
Released(holders) == holders = {}

SinkInit ==
    /\ shmHandles = {}
    /\ writeIdx = 0
    /\ readIdx = 0
    /\ qState = "invalid"
    /\ slots = ZeroSlots
    /\ pubPc = [p \in Pubs |-> "idle"]
    /\ pubInc = [p \in Pubs |-> 0]
    /\ pubFrame = [p \in Pubs |-> 0]
    /\ pubWrites = [p \in Pubs |-> 0]
    /\ sinkSeq = 0

\* new: check_existing opens the region by name and closes the handle again
CheckExisting(p) ==
    /\ pubPc[p] = "idle"
    /\ pubPc' = [pubPc EXCEPT ![p] = IF RegionExists THEN "refused" ELSE "checked"]
    /\ UNCHANGED <<shmHandles, writeIdx, readIdx, qState, slots, pubInc, pubFrame,
                   pubWrites, sinkSeq>>
    /\ UNCHANGED <<coreVars, cfgVars, frmVars>>

\* create_shared_memory: CreateFileMappingW creates the region, or opens the one
\* that exists under the name; both return a handle
CreateMapping(p) ==
    /\ pubPc[p] = "checked"
    /\ shmHandles' = shmHandles \cup {p}
    /\ pubPc' = [pubPc EXCEPT ![p] = "created"]
    /\ UNCHANGED <<writeIdx, readIdx, qState, slots, pubInc, pubFrame, pubWrites, sinkSeq>>
    /\ UNCHANGED <<coreVars, cfgVars, frmVars>>

\* the region after a holder has closed its handle
CloseHandle(h) ==
    /\ shmHandles' = shmHandles \ {h}
    /\ IF Released(shmHandles \ {h})
       THEN /\ writeIdx' = 0
            /\ readIdx' = 0
            /\ qState' = "invalid"
            /\ slots' = ZeroSlots
       ELSE UNCHANGED <<writeIdx, readIdx, qState, slots>>

\* create_shared_memory: MapViewOfFile returns no view: CloseHandle, return Err
MapViewFailed(p) ==
    /\ pubPc[p] = "created"
    /\ CloseHandle(p)
    /\ pubPc' = [pubPc EXCEPT ![p] = "failed"]
    /\ UNCHANGED <<pubInc, pubFrame, pubWrites, sinkSeq>>
    /\ UNCHANGED <<coreVars, cfgVars, frmVars>>

\* create_shared_memory: the view is mapped, (*header).write_idx = AtomicU32::new(0)
InitWriteIdx(p) ==
    /\ pubPc[p] = "created"
    /\ writeIdx' = 0
    /\ pubPc' = [pubPc EXCEPT ![p] = "initRead"]
    /\ UNCHANGED <<shmHandles, readIdx, qState, slots, pubInc, pubFrame, pubWrites,
                   sinkSeq>>
    /\ UNCHANGED <<coreVars, cfgVars, frmVars>>

\* create_shared_memory: (*header).read_idx = AtomicU32::new(0)
InitReadIdx(p) ==
    /\ pubPc[p] = "initRead"
    /\ readIdx' = 0
    /\ pubPc' = [pubPc EXCEPT ![p] = "initState"]
    /\ UNCHANGED <<shmHandles, writeIdx, qState, slots, pubInc, pubFrame, pubWrites,
                   sinkSeq>>
    /\ UNCHANGED <<coreVars, cfgVars, frmVars>>

\* create_shared_memory: (*header).state = AtomicU32::new(Starting); the rest of
\* the header and the slot pointers follow, new returns Ok
InitState(p) ==
    /\ pubPc[p] = "initState"
    /\ qState' = "starting"
    /\ pubPc' = [pubPc EXCEPT ![p] = "owner"]
    /\ UNCHANGED <<shmHandles, writeIdx, readIdx, slots, pubInc, pubFrame, pubWrites,
                   sinkSeq>>
    /\ UNCHANGED <<coreVars, cfgVars, frmVars>>

\* write_frame_internal: to_nv12, then write_idx.fetch_add(1) + 1
WriteBegin(p) ==
    /\ pubPc[p] = "owner"
    /\ pubWrites[p] < MaxWrites
    /\ sinkSeq' = sinkSeq + 1
    /\ pubFrame' = [pubFrame EXCEPT ![p] = sinkSeq + 1]
    /\ writeIdx' = writeIdx + 1
    /\ pubInc' = [pubInc EXCEPT ![p] = writeIdx + 1]
    /\ pubPc' = [pubPc EXCEPT ![p] = "timestamp"]
    /\ UNCHANGED <<shmHandles, readIdx, qState, slots, pubWrites>>
    /\ UNCHANGED <<coreVars, cfgVars, frmVars>>

\* write_frame_internal: *self.timestamps[idx] = timestamp
WriteTimestamp(p) ==
    /\ pubPc[p] = "timestamp"
    /\ slots' = [slots EXCEPT ![WriteSlot(pubInc[p])].ts = SlotTimestamp(TimestampUs(pubFrame[p]))]
    /\ pubPc' = [pubPc EXCEPT ![p] = "copyY"]
    /\ UNCHANGED <<shmHandles, writeIdx, readIdx, qState, pubInc, pubFrame, pubWrites,
                   sinkSeq>>
    /\ UNCHANGED <<coreVars, cfgVars, frmVars>>

\* write_frame_internal: copy of the Y plane
CopyY(p) ==
    /\ pubPc[p] = "copyY"
    /\ slots' = [slots EXCEPT ![WriteSlot(pubInc[p])].y = pubFrame[p]]
    /\ pubPc' = [pubPc EXCEPT ![p] = "copyUV"]
    /\ UNCHANGED <<shmHandles, writeIdx, readIdx, qState, pubInc, pubFrame, pubWrites,
                   sinkSeq>>
    /\ UNCHANGED <<coreVars, cfgVars, frmVars>>

\* write_frame_internal: copy of the UV plane
CopyUV(p) ==
    /\ pubPc[p] = "copyUV"
    /\ slots' = [slots EXCEPT ![WriteSlot(pubInc[p])].uv = pubFrame[p]]
    /\ pubPc' = [pubPc EXCEPT ![p] = "storeRead"]
    /\ UNCHANGED <<shmHandles, writeIdx, readIdx, qState, pubInc, pubFrame, pubWrites,
                   sinkSeq>>
    /\ UNCHANGED <<coreVars, cfgVars, frmVars>>

\* write_frame_internal: read_idx.store(inc)
StoreReadIdx(p) ==
    /\ pubPc[p] = "storeRead"
    /\ readIdx' = pubInc[p]
    /\ pubPc' = [pubPc EXCEPT ![p] = "storeState"]
    /\ UNCHANGED <<shmHandles, writeIdx, qState, slots, pubInc, pubFrame, pubWrites,
                   sinkSeq>>
    /\ UNCHANGED <<coreVars, cfgVars, frmVars>>

\* write_frame_internal: state.store(Ready), return Ok
StoreState(p) ==
    /\ pubPc[p] = "storeState"
    /\ qState' = "ready"
    /\ pubWrites' = [pubWrites EXCEPT ![p] = @ + 1]
    /\ pubPc' = [pubPc EXCEPT ![p] = "owner"]
    /\ UNCHANGED <<shmHandles, writeIdx, readIdx, slots, pubInc, pubFrame, sinkSeq>>
    /\ UNCHANGED <<coreVars, cfgVars, frmVars>>

\* drop: state.store(Stopping)
DropSignal(p) ==
    /\ pubPc[p] = "owner"
    /\ qState' = "stopping"
    /\ pubPc' = [pubPc EXCEPT ![p] = "dropping"]
    /\ UNCHANGED <<shmHandles, writeIdx, readIdx, slots, pubInc, pubFrame, pubWrites,
                   sinkSeq>>
    /\ UNCHANGED <<coreVars, cfgVars, frmVars>>

\* drop: UnmapViewOfFile and CloseHandle
DropRelease(p) ==
    /\ pubPc[p] = "dropping"
    /\ CloseHandle(p)
    /\ pubPc' = [pubPc EXCEPT ![p] = "dropped"]
    /\ UNCHANGED <<pubInc, pubFrame, pubWrites, sinkSeq>>
    /\ UNCHANGED <<coreVars, cfgVars, frmVars>>

\* the consuming application opens the region by name
ReaderOpen ==
    /\ RegionExists
    /\ Reader \notin shmHandles
    /\ shmHandles' = shmHandles \cup {Reader}
    /\ UNCHANGED <<writeIdx, readIdx, qState, slots, pubPc, pubInc, pubFrame, pubWrites,
                   sinkSeq>>
    /\ UNCHANGED <<coreVars, cfgVars, frmVars>>

\* the consuming application closes its handle
ReaderClose ==
    /\ Reader \in shmHandles
    /\ CloseHandle(Reader)
    /\ UNCHANGED <<pubPc, pubInc, pubFrame, pubWrites, sinkSeq>>
    /\ UNCHANGED <<coreVars, cfgVars, frmVars>>

Publisher(p) ==
    \/ CheckExisting(p)
    \/ CreateMapping(p)
    \/ MapViewFailed(p)
    \/ InitWriteIdx(p)
    \/ InitReadIdx(p)
    \/ InitState(p)
    \/ WriteBegin(p)
    \/ WriteTimestamp(p)
    \/ CopyY(p)
    \/ CopyUV(p)
    \/ StoreReadIdx(p)
    \/ StoreState(p)
    \/ DropSignal(p)
    \/ DropRelease(p)

SinkNext ==
    \/ \E p \in Pubs : Publisher(p)
    \/ ReaderOpen
    \/ ReaderClose

(***************************************************************************)
(* Live configuration (main.rs: ProteusApp and run_virtual_camera_mode;    *)
(* config_utils.rs: ConfigWatcher).                                        *)
(*                                                                         *)
(* The content of the configuration file at the moment the loop reads it   *)
(* is an input of the step.  A capture worker is represented by the        *)
(* CaptureConfig it was opened with and a pipeline by the shader list,     *)
(* texture list and size it was built from.  The messages logged by a step *)
(* are kept as a set of tags.                                              *)
(***************************************************************************)
Modes == {"window", "virtual-camera"}

\* Rust's None for the optional values of this component
NoConfig == [none |-> TRUE]

NoCapture == [none |-> TRUE]

NoSink == [none |-> TRUE]

NoMode == "none"

NoArgs == [none |-> TRUE]

NoPipeline == [none |-> TRUE]

Inputs == {0, 1}

Widths == {640, 1280}

Heights == {480, 720}

FpsValues == {30, 60}

ShaderPaths == {<<>>, <<"a.frag">>}

TexturePaths == {<<>>, <<"bg.png">>}

ConfigFields == {"input", "width", "height", "fps", "output", "shader", "textures"}

AllConfigs == [input : Inputs, width : Widths, height : Heights, fps : FpsValues,
               output : Modes, shader : ShaderPaths, textures : TexturePaths]

\* the configuration load_config read at startup
StartConfig(mode) == [input |-> 0, width |-> 640, height |-> 480, fps |-> 30,
                      output |-> mode, shader |-> <<>>, textures |-> <<>>]

Differing(c, d) == {f \in ConfigFields : c[f] # d[f]}

\* the contents the configuration file takes
Configs(mode) ==
    {c \in AllConfigs : Cardinality(Differing(c, StartConfig(mode))) <= MaxFieldChanges}

CaptureConfigOf(c) == [input |-> c.input, width |-> c.width, height |-> c.height,
                       fps |-> c.fps]

PipelineOf(c, w, h) == [shader |-> c.shader, textures |-> c.textures, width |-> w,
                        height |-> h]

SinkConfigOf(c) == [width |-> c.width, height |-> c.height, fps |-> c.fps]

\* the result of init_capture_with_retry: the worker, or None when the camera
\* could not be opened
InitCaptureWithRetry(opens, cc) == IF opens THEN cc ELSE NoCapture

\* "Capture/Window Change (Input, Width, Height, FPS)"
CaptureChanged(new, old) ==
    new.input # old.input \/ new.width # old.width \/ new.height # old.height
        \/ new.fps # old.fps

SizeChanged(new, old) == new.width # old.width \/ new.height # old.height

\* "Shader/Texture Change"
ShaderOrTextureChanged(new, old) ==
    new.shader # old.shader \/ new.textures # old.textures

CfgInit ==
    /\ appMode = NoMode
    /\ appPc = "start"
    /\ platform = "none"
    /\ instanceLock = FALSE
    /\ recorded = NoConfig
    /\ args = NoArgs
    /\ capture = NoCapture
    /\ pipeline = NoPipeline
    /\ sinkConfig = NoSink
    /\ frameDuration = 0
    /\ logs = {}
    /\ effective = NoConfig
    /\ lastOld = NoConfig
    /\ lastNew = NoConfig
    /\ restarted = FALSE
    /\ rebuilt = FALSE
    /\ produced = FALSE
    /\ startOpened = FALSE

\* the step handled no parsed change
NoChangeHistory ==
    /\ lastOld' = NoConfig
    /\ lastNew' = NoConfig
    /\ restarted' = FALSE
    /\ rebuilt' = FALSE

\* main: load_config, then the dispatch on args.output
Dispatch(mode) ==
    /\ appPc = "start"
    /\ appMode' = mode
    /\ args' = CaptureConfigOf(StartConfig(mode))
    /\ effective' = StartConfig(mode)
    /\ produced' = FALSE
    /\ NoChangeHistory

\* run_window_mode: ProteusApp::new, then resumed / initialize.  The watcher
\* records the file's content if it can be read and parsed at that moment.
StartWindow ==
    /\ Dispatch("window")
    /\ \E opens \in BOOLEAN, readable \in BOOLEAN, pipeOk \in BOOLEAN :
          /\ recorded' = IF readable THEN StartConfig("window") ELSE NoConfig
          /\ frameDuration' = args'.fps
          /\ capture' = InitCaptureWithRetry(opens, args')
          /\ startOpened' = opens
          /\ pipeline' = IF pipeOk
                         THEN PipelineOf(StartConfig("window"), args'.width, args'.height)
                         ELSE NoPipeline
          /\ appPc' = IF pipeOk THEN "check" ELSE "exited"
          /\ logs' = (IF opens THEN {} ELSE {"error: capture"})
                        \cup (IF pipeOk THEN {} ELSE {"error: initialization"})
    /\ UNCHANGED <<sinkConfig, platform, instanceLock>>
    /\ UNCHANGED loopVars2

\* the builds of output/mod.rs: virtual_camera_windows.rs, virtual_camera_linux.rs,
\* virtual_camera_macos.rs
Platforms == {"windows", "linux", "macos"}

\* VirtualCameraOutput::new while the loop's `output` exists, up to its result.
\* macOS: INSTANCE_MUTEX.lock() by the thread whose `output` holds the guard does
\* not return (std::sync::Mutex: it deadlocks or panics).  Windows: check_existing
\* opens the region the old output holds and new returns Err.  Linux: the device
\* is opened again, which succeeds or fails.
ReplaceSink(os, locked, sinkOk) ==
    IF os = "macos" /\ locked THEN {"blocked", "panicked"}
    ELSE IF os = "windows" THEN {"err"}
    ELSE IF sinkOk THEN {"ok"} ELSE {"err"}

\* run_virtual_camera_mode up to the main loop: every failure returns the error
StartVirtualCamera ==
    /\ Dispatch("virtual-camera")
    /\ \E opens \in BOOLEAN, readable \in BOOLEAN, pipeOk \in BOOLEAN, sinkOk \in BOOLEAN,
          os \in Platforms :
          /\ startOpened' = opens
          /\ platform' = os
          /\ instanceLock' = (os = "macos" /\ opens /\ pipeOk /\ sinkOk)
          /\ logs' = IF ~opens THEN {"Err: camera"}
                     ELSE IF ~pipeOk THEN {"Err: pipeline"}
                     ELSE IF ~sinkOk THEN {"Err: sink"}
                     ELSE {}
          /\ IF ~opens
             THEN /\ appPc' = "exited"
                  /\ UNCHANGED <<capture, recorded, pipeline, sinkConfig, frameDuration>>
             ELSE /\ capture' = args'
                  /\ recorded' = IF readable THEN StartConfig("virtual-camera")
                                 ELSE NoConfig
                  /\ IF ~pipeOk
                     THEN /\ appPc' = "exited"
                          /\ UNCHANGED <<pipeline, sinkConfig, frameDuration>>
                     ELSE /\ pipeline' = PipelineOf(StartConfig("virtual-camera"),
                                                    args'.width, args'.height)
                          /\ IF ~sinkOk
                             THEN /\ appPc' = "exited"
                                  /\ UNCHANGED <<sinkConfig, frameDuration>>
                             ELSE /\ sinkConfig' = SinkConfigOf(StartConfig("virtual-camera"))
                                  /\ frameDuration' = args'.fps
                                  /\ appPc' = "check"
    /\ UNCHANGED loopVars2

\* check_for_changes: no event of the file is waiting
CheckNoChange ==
    /\ appPc = "check"
    /\ appPc' = "frame"
    /\ logs' = {}
    /\ NoChangeHistory
    /\ UNCHANGED <<appMode, platform, instanceLock, recorded, args, capture, pipeline,
                   sinkConfig, frameDuration, produced, startOpened, effective>>
    /\ UNCHANGED loopVars2

\* a failed read forgetting the recorded configuration
CurrentConfigForgotten(current) == NoConfig
\* check_for_changes, the Err arms: self.current_config is not assigned
CurrentConfigAfterError(current) == current

\* check_for_changes: the file changed and cannot be read or parsed
CheckUnparsable ==
    /\ appPc = "check"
    /\ appPc' = "frame"
    /\ logs' = {"info: config file changed", "error: read or parse"}
    /\ NoChangeHistory
    /\ recorded' = CurrentConfigAfterError(recorded)
    /\ UNCHANGED <<appMode, platform, instanceLock, args, capture, pipeline,
                   sinkConfig, frameDuration, produced, startOpened, effective>>
    /\ UNCHANGED loopVars2

\* a failed rebuild taking the running pipeline away
PipelineAfterRebuildLost(ok, built, running_) == IF ok THEN built ELSE NoPipeline
\* `self.pipeline = Some(pipeline)` after `WgpuPipeline::new(..)?`, and
\* `Ok(new_pipeline) => pipeline = new_pipeline, Err(e) => error!(..)`
PipelineAfterRebuild(ok, built, running_) == IF ok THEN built ELSE running_

\* check_for_changes returns (old, new); ProteusApp::handle_config_change
HandleConfigChange ==
    /\ appPc = "check"
    /\ appMode = "window"
    /\ \E new \in Configs(appMode), opens \in BOOLEAN, pipeOk \in BOOLEAN :
        LET old == recorded
            has == old # NoConfig
            cap == has /\ CaptureChanged(new, old)
            size == cap /\ SizeChanged(new, old)
            pipe == has /\ (size \/ ShaderOrTextureChanged(new, old))
            args2 == IF cap THEN CaptureConfigOf(new) ELSE args
        IN  /\ recorded' = new
            /\ args' = args2
            /\ frameDuration' = IF cap THEN new.fps ELSE frameDuration
            /\ capture' = IF cap THEN InitCaptureWithRetry(opens, CaptureConfigOf(new))
                          ELSE capture
            /\ pipeline' = IF pipe
                           THEN PipelineAfterRebuild(pipeOk,
                                    PipelineOf(new, args2.width, args2.height), pipeline)
                           ELSE pipeline
            /\ logs' = {"info: config file changed"}
                  \cup (IF has /\ new.output # old.output THEN {"warn: output mode"} ELSE {})
                  \cup (IF cap THEN {"info: re-initializing capture"} ELSE {})
                  \cup (IF cap /\ ~opens THEN {"error: capture"} ELSE {})
                  \cup (IF pipe THEN {"info: reloading pipeline"} ELSE {})
                  \cup (IF pipe /\ ~pipeOk THEN {"error: pipeline"} ELSE {})
            /\ lastOld' = effective
            /\ lastNew' = new
            /\ effective' = IF has THEN new ELSE effective
            /\ restarted' = cap
            /\ rebuilt' = pipe
    /\ appPc' = "frame"
    /\ UNCHANGED <<appMode, platform, instanceLock, sinkConfig, produced, startOpened>>
    /\ UNCHANGED loopVars2

\* run_virtual_camera_mode: check_for_changes returns (old, new); the loop's own
\* handling of the change
VirtualCameraConfigChange ==
    /\ appPc = "check"
    /\ appMode = "virtual-camera"
    /\ \E new \in Configs(appMode), opens \in BOOLEAN, pipeOk \in BOOLEAN,
          sinkOk \in BOOLEAN :
        LET old == recorded
            has == old # NoConfig
            cap == has /\ CaptureChanged(new, old)
        IN  \E sink \in (IF cap THEN ReplaceSink(platform, instanceLock, sinkOk)
                          ELSE {"kept"}) :
            LET returns == sink \in {"ok", "err", "kept"}
                pipe == returns /\ has /\ (cap \/ ShaderOrTextureChanged(new, old))
            IN  /\ recorded' = new
                /\ frameDuration' = IF cap THEN new.fps ELSE frameDuration
                /\ capture' = IF cap THEN InitCaptureWithRetry(opens, CaptureConfigOf(new))
                              ELSE capture
                /\ sinkConfig' = IF sink = "ok" THEN SinkConfigOf(new) ELSE sinkConfig
                /\ pipeline' = IF pipe
                               THEN PipelineAfterRebuild(pipeOk,
                                        PipelineOf(new, new.width, new.height), pipeline)
                               ELSE pipeline
                /\ logs' = {"info: config file changed"}
                      \cup (IF has /\ new.output # old.output THEN {"warn: output mode"}
                            ELSE {})
                      \cup (IF cap THEN {"info: re-initializing capture"} ELSE {})
                      \cup (IF cap /\ ~opens THEN {"error: capture"} ELSE {})
                      \cup (IF sink = "err" THEN {"error: output"} ELSE {})
                      \cup (IF pipe THEN {"info: reloading pipeline"} ELSE {})
                      \cup (IF pipe /\ ~pipeOk THEN {"error: pipeline"} ELSE {})
                /\ lastOld' = effective
                /\ lastNew' = new
                /\ effective' = IF has THEN new ELSE effective
                /\ restarted' = cap
                /\ rebuilt' = pipe
                /\ appPc' = IF returns THEN "frame" ELSE sink
    /\ UNCHANGED <<appMode, platform, instanceLock, args, produced, startOpened>>
    /\ UNCHANGED loopVars2

\* the rest of the tick: get_latest_frame, process, present.  Without a capture
\* worker there is no frame; a worker may not have delivered one yet.
FrameTick ==
    /\ appPc = "frame"
    /\ \E got \in BOOLEAN : produced' = (capture # NoCapture /\ got)
    /\ appPc' = "check"
    /\ logs' = {}
    /\ NoChangeHistory
    /\ UNCHANGED <<appMode, platform, instanceLock, recorded, args, capture, pipeline,
                   sinkConfig, frameDuration, startOpened, effective>>
    /\ UNCHANGED loopVars2

CfgNext ==
    \/ StartWindow
    \/ StartVirtualCamera
    \/ CheckNoChange
    \/ CheckUnparsable
    \/ HandleConfigChange
    \/ VirtualCameraConfigChange
    \/ FrameTick

(***************************************************************************)
(* Frames (frame.rs).  A frame is its width, height, format and data, a    *)
(* sequence of bytes (len is data.len()).  The colour arithmetic of the    *)
(* external codec is not modelled: Codec is a fixed function of the source *)
(* bytes and the two formats that fills a buffer of the given length.      *)
(***************************************************************************)
PixelFormats == {"Rgb", "Rgba", "Yuyv", "Uyvy", "Nv12"}

\* widths and heights of the frames
FrameDims == {2, 4, 6}

\* no frame: before the first one is made, and after a panic
NoVideoFrame == [none |-> TRUE]

\* PixelFormat::bytes_per_pixel
BytesPerPixel(format) ==
    CASE format = "Rgb" -> 3
      [] format = "Rgba" -> 4
      [] format = "Yuyv" -> 2
      [] format = "Uyvy" -> 2
      [] format = "Nv12" -> 1

\* to_nv12: y_size + uv_size
Nv12Size(width, height) ==
    LET y_size == width * height
        uv_stride == width + (width % 2)
        uv_height == (height + 1) \div 2
    IN  y_size + uv_stride * uv_height

\* the length a buffer of the format must have for the codec to wrap it
BufferSize(format, width, height) ==
    IF format = "Nv12" THEN Nv12Size(width, height)
    ELSE width * height * BytesPerPixel(format)

Frame(width, height, format, data) ==
    [width |-> width, height |-> height, format |-> format, len |-> Len(data),
     data |-> data]

\* vec![0; size]
Zeros(size) == [i \in 1..size |-> 0]

\* VideoFrame::new
VideoFrameNew(width, height, format) ==
    Frame(width, height, format, Zeros(width * height * BytesPerPixel(format)))

\* ezk_image::Image::from_buffer(..).expect(..) on the source, and the RGB fast
\* path's indexing and copy_from_slice: the source must hold a whole image
SourceWraps(f) == f.len = BufferSize(f.format, f.width, f.height)

FormatCode(format) ==
    CASE format = "Rgb" -> 1
      [] format = "Rgba" -> 2
      [] format = "Yuyv" -> 3
      [] format = "Uyvy" -> 4
      [] format = "Nv12" -> 5

\* ezk_image::convert(&src_image, &mut dst_image): fills the destination buffer
\* of the given size from the source image
Codec(srcFormat, src, dstFormat, size) ==
    [i \in 1..size |->
        (src[((i * 7) % Len(src)) + 1] + 16 * FormatCode(srcFormat)
            + FormatCode(dstFormat) + i) % 256]

RgbToRgbaNoAlpha(data, pixel_count) ==
    [j \in 1..(pixel_count * 4) |->
        LET i == (j - 1) \div 4
            k == (j - 1) % 4
        IN  IF k = 3 THEN 0 ELSE data[i * 3 + k + 1]]

\* to_rgba, fast path: R, G, B copied, alpha = 255
RgbToRgba(data, pixel_count) ==
    [j \in 1..(pixel_count * 4) |->
        LET i == (j - 1) \div 4
            k == (j - 1) % 4
        IN  IF k = 3 THEN 255 ELSE data[i * 3 + k + 1]]

UyvyToYuyvCopy(data, size) ==
    [j \in 1..size |-> IF j <= Len(data) THEN data[j] ELSE 0]

\* to_yuyv, fast path, and the yuyv_temp of to_rgba and to_nv12: a zeroed
\* buffer of the size, each pair written swapped if the source holds it
UyvyToYuyv(data, size) ==
    [j \in 1..size |->
        LET i == 2 * ((j - 1) \div 2)
        IN  IF i + 1 < Len(data)
            THEN (IF j - 1 = i THEN data[i + 2] ELSE data[i + 1])
            ELSE 0]

\* to_uyvy: the in-place swap of each byte pair
YuyvToUyvy(data) ==
    [j \in 1..Len(data) |-> IF j % 2 = 1 THEN data[j + 1] ELSE data[j - 1]]

\* to_rgba: the frame it returns
ToRgba(f) ==
    LET pixel_count == f.width * f.height
    IN  CASE f.format = "Rgba" -> f
          [] f.format = "Rgb" ->
                Frame(f.width, f.height, "Rgba", RgbToRgba(f.data, pixel_count))
          [] f.format = "Uyvy" ->
                Frame(f.width, f.height, "Rgba",
                      Codec("Yuyv", UyvyToYuyv(f.data, f.len), "Rgba", pixel_count * 4))
          [] OTHER ->
                Frame(f.width, f.height, "Rgba",
                      Codec(f.format, f.data, "Rgba", pixel_count * 4))

\* to_nv12: the frame it returns
ToNv12(f) ==
    LET size == Nv12Size(f.width, f.height)
    IN  CASE f.format = "Nv12" -> f
          [] f.format = "Uyvy" ->
                Frame(f.width, f.height, "Nv12",
                      Codec("Yuyv", UyvyToYuyv(f.data, f.len), "Nv12", size))
          [] OTHER ->
                Frame(f.width, f.height, "Nv12", Codec(f.format, f.data, "Nv12", size))

\* to_yuyv: the frame it returns
ToYuyv(f) ==
    LET pixel_count == f.width * f.height
    IN  CASE f.format = "Yuyv" -> f
          [] f.format = "Uyvy" ->
                Frame(f.width, f.height, "Yuyv", UyvyToYuyv(f.data, pixel_count * 2))
          [] OTHER ->
                Frame(f.width, f.height, "Yuyv",
                      Codec(f.format, f.data, "Yuyv", pixel_count * 2))

\* to_uyvy: the frame it returns
ToUyvy(f) ==
    LET pixel_count == f.width * f.height
    IN  CASE f.format = "Uyvy" -> f
          [] f.format = "Yuyv" ->
                Frame(f.width, f.height, "Uyvy", YuyvToUyvy(f.data))
          [] OTHER ->
                Frame(f.width, f.height, "Uyvy",
                      YuyvToUyvy(Codec(f.format, f.data, "Yuyv", pixel_count * 2)))

\* the bytes a producer hands to from_data: byte i is i * seed, cut to 8 bits
DataSeeds == {3, 5}

ImageBytes(seed, size) == [i \in 1..size |-> (i * seed) % 256]

FrmInit ==
    /\ frm = NoVideoFrame
    /\ frmFrom = "none"
    /\ frmPanicked = FALSE
    /\ frmSrc = NoVideoFrame
    /\ frmOps = 0

\* let frame = VideoFrame::new(width, height, format)
MakeNew ==
    /\ \E width \in FrameDims, height \in FrameDims, format \in PixelFormats :
          frm' = VideoFrameNew(width, height, format)
    /\ frmFrom' = "new"
    /\ frmPanicked' = FALSE
    /\ frmSrc' = NoVideoFrame
    /\ frmOps' = 0
    /\ UNCHANGED <<coreVars, sinkVars, cfgVars>>

\* let frame = VideoFrame::from_data(..) with the bytes of a whole image, as the
\* capture back ends, the decoder and the pipeline's readback make it
MakeFromData ==
    /\ \E width \in FrameDims, height \in FrameDims, format \in PixelFormats,
          seed \in DataSeeds :
          frm' = Frame(width, height, format,
                       ImageBytes(seed, BufferSize(format, width, height)))
    /\ frmFrom' = "from_data"
    /\ frmPanicked' = FALSE
    /\ frmSrc' = NoVideoFrame
    /\ frmOps' = 0
    /\ UNCHANGED <<coreVars, sinkVars, cfgVars>>

\* frame = frame.<conversion>(): a clone when the format is the target's, else a
\* new buffer filled from the source, or a panic when the source cannot be wrapped
Converted(result, name, targetFormat) ==
    /\ frm # NoVideoFrame
    /\ frmOps < MaxConversions
    /\ IF frm.format = targetFormat \/ SourceWraps(frm)
       THEN /\ frm' = result
            /\ frmPanicked' = FALSE
       ELSE /\ frm' = NoVideoFrame
            /\ frmPanicked' = TRUE
    /\ frmFrom' = name
    /\ frmSrc' = frm
    /\ frmOps' = frmOps + 1
    /\ UNCHANGED <<coreVars, sinkVars, cfgVars>>

ConvertToRgba == Converted(ToRgba(frm), "to_rgba", "Rgba")

ConvertToNv12 == Converted(ToNv12(frm), "to_nv12", "Nv12")

ConvertToYuyv == Converted(ToYuyv(frm), "to_yuyv", "Yuyv")

ConvertToUyvy == Converted(ToUyvy(frm), "to_uyvy", "Uyvy")

FrmNext ==
    \/ MakeNew
    \/ MakeFromData
    \/ ConvertToRgba
    \/ ConvertToNv12
    \/ ConvertToYuyv
    \/ ConvertToUyvy

(***************************************************************************)
(* Specifications                                                          *)
(***************************************************************************)
Init == CapInit /\ MlInit /\ VidInit /\ WpInit /\ SinkInit /\ CfgInit /\ FrmInit

\* capture thread and application loop
Next == CapNext

Spec == Init /\ [][Next]_vars

\* segmentation worker and the pipeline's calls
SpecML == Init /\ [][MlNext]_vars

\* the shader pipeline with its shader files
SpecPipeline == Init /\ [][WpNext]_vars

\* the application loop with the watched configuration file
SpecConfig == Init /\ [][CfgNext]_vars

\* frames made and converted
SpecFrame == Init /\ [][FrmNext]_vars

\* publishers and reader of the shared-memory region
SpecSink == Init /\ [][SinkNext]_vars

\* decode thread and player, any interleaving
SpecVideo == Init /\ [][VidNext]_vars

\* decode thread and player; the decode thread is scheduled
FairVideo ==
    /\ Init
    /\ [][VidNext]_vars
    /\ WF_vars(DecodeThread)

TypeOK ==
    /\ capPc \in {"opening", "loop", "capture", "send", "done"}
    /\ loopPc \in {"tick", "setup", "drain", "process", "end"}
    /\ frameSeq \in 0..MaxFrames
    /\ tickCount \in 0..MaxTicks

\* The capture thread is scheduled: whenever it can take a step it eventually does.
\* No capture call hangs in this specification (there is no CameraStall step).
FairNext ==
    \/ CheckRunning
    \/ CaptureOk
    \/ CaptureErr
    \/ Publish
    \/ TickStart
    \/ RecvFrame
    \/ GetLatestReturn
    \/ ProcessOk
    \/ ProcessErr
    \/ TickEnd
    \/ DropCapture

FairCapture ==
    /\ Init
    /\ [][FairNext]_vars
    /\ WF_vars(CaptureThread)

(***************************************************************************)
(* Capture hand-off: claims                                                *)
(***************************************************************************)
\* newest frame the loop can obtain without a further publish
NewestAvailable == IF frameChan # <<>> THEN Last(frameChan) ELSE latestFrame

C2_NextReadIsMostRecentlyCaptured == rxAlive => NewestAvailable = lastOffered

\* C2, amended: the newest frame the loop can read is the frame most recently
\* accepted by try_send; when try_send reports Full, the frame it was given is
\* newer than every queued frame and is the one that is lost.
C2_FullDropsNewFrame ==
    rxAlive => /\ NewestAvailable = lastQueued
               /\ (sendResult = "full" => lastOffered > lastQueued)
               /\ (sendResult = "ok" => lastOffered = lastQueued)

C2_Witness ==
    /\ rxAlive
    /\ sendResult = "full"
    /\ Len(frameChan) = CaptureChanCap
    /\ lastOffered > Last(frameChan)

\* C3: whenever the capture thread stands at its publish step, the step can be
\* taken at once, be the hand-off empty, full or disconnected.
C3_PublishNeverBlocks == capPc = "send" => ENABLED Publish

C3_Witness == capPc = "send" /\ rxAlive /\ ChanFull(frameChan) /\ loopPc = "process"

\* C4: a get_latest_frame call can always take its next step, and the step by
\* which it returns leaves the hand-off empty, returns the last frame queued,
\* returns the previous call's frame when it received nothing, returns none
\* only if no frame was ever received, and never returns an older frame than
\* the call before.
C4_GetLatestFrame ==
    [][/\ loopPc = "drain" => ENABLED (RecvFrame \/ GetLatestReturn)
       /\ (loopPc = "drain" /\ loopPc' # "drain") =>
             /\ frameChan' = <<>>
             /\ frameOption' = lastQueued
             /\ (~gotNew => frameOption' = frameOption)
             /\ (frameOption' = 0 <=> ~everRecv)
             /\ frameOption' >= frameOption]_vars

C4_Witness ==
    /\ loopPc = "process"
    /\ tickCount >= 1
    /\ ~gotNew
    /\ frameOption # 0
    /\ frameOption = prevReturned

\* C5 as stated: the pipeline runs in a tick only with a frame of that tick,
\* and not in a tick in which the stuck camera delivered nothing.
C5_StuckCameraSkipsTicks ==
    loopPc = "process" => (frameOption # 0 /\ ~(camStuck /\ ~gotNew))

\* C5, amended: the pipeline runs in a tick only when get_latest_frame returned
\* a frame for that tick, and the presenter only when the pipeline then
\* succeeded, and it gets that frame; when process_frame fails nothing is
\* presented.  A tick is skipped only while the worker has never delivered a
\* frame (or there is no worker).  After a stall the loop keeps getting the
\* last received frame: the pipeline runs on it in every tick, a successful
\* tick presents it again, and no newer frame reaches the presenter.
C5_RunsWheneverAFrameWasEverReceived ==
    /\ [](/\ loopPc = "process" => (frameOption # 0 /\ frameOption = latestFrame)
          /\ tickOutcome \in {"presented", "failed"} =>
                (frameOption # 0 /\ frameOption = latestFrame)
          /\ tickOutcome = "presented" => lastPresented = frameOption
          /\ tickOutcome = "skipped" => (~rxAlive \/ ~everRecv))
    /\ [][/\ lastPresented' # lastPresented =>
                (loopPc = "process" /\ tickOutcome' = "presented"
                 /\ lastPresented' = frameOption)
          /\ tickOutcome' = "failed" => lastPresented' = lastPresented
          /\ (camStuck /\ capPc = "capture" /\ frameChan = <<>> /\ rxAlive /\ rxAlive') =>
                (latestFrame' = latestFrame /\ frameChan' = <<>>)]_vars

C5_Witness ==
    /\ camStuck
    /\ capPc = "capture"
    /\ frameChan = <<>>
    /\ ~gotNew
    /\ loopPc = "end"
    /\ tickOutcome = "presented"
    /\ lastPresented = prevReturned

\* C6: once the capture worker handle has been dropped, the capture thread
\* has terminated.
C6_DropJoinsThread == ~rxAlive => capPc = "done"

\* C7: after the handle is dropped the capture thread eventually terminates.
C7_ThreadExitsAfterDrop == ~rxAlive ~> (capPc = "done")

\* the thread left through the stop flag, not through a failed try_send
C7_Witness == ~rxAlive /\ capPc = "done" /\ sendResult # "disconnected"

(***************************************************************************)
(* Auxiliary video decoder: claims                                         *)
(***************************************************************************)
\* C8: after the VideoPlayer is dropped its decode thread eventually
\* terminates, and no decoder subprocess is left running.
C8_DecodeThreadStopsAfterDrop == ~vidAlive ~> (vidPc = "done" /\ vidChild # "running")

(***************************************************************************)
(* Segmentation hand-off: claims                                           *)
(***************************************************************************)
\* C9: a try_predict call made while the worker is inside predict() returns
\* false, and no frame waits in the hand-off behind the frame being processed.
C9_BusyWorkerRejectsFrame ==
    /\ busyAtSubmit => ~accepted
    /\ mlPc = "predict" => mlFrameChan = <<>>

\* C10: a poll_result call can always take its next step, and the step by
\* which it returns leaves no mask waiting and returns the mask produced last,
\* or none when no mask was produced since the previous poll returned.
C10_PollResult ==
    [][/\ plPc = "poll" => ENABLED (PollRecv \/ PollReturn)
       /\ (plPc = "poll" /\ plPc' # "poll") =>
             /\ maskChan' = <<>>
             /\ maskResult' = IF lastProduced # producedAtPoll
                              THEN lastProduced ELSE 0]_vars

\* a poll that found two masks waiting, returned the newer, discarded the older
C10_Witness ==
    /\ plPc = "submit"
    /\ pollCount >= 2
    /\ maskResult # 0
    /\ maskResult = lastProduced

\* C11: a frame whose inference failed never gets a mask (none is queued, none
\* is the last one produced or returned); the failure does not end the worker
\* thread, which stands at recv() again and takes the next accepted frame.
C11_InferenceFailureSkipsMask ==
    /\ \A f \in mlFailed :
          /\ \A i \in 1..Len(maskChan) : maskChan[i] # f
          /\ f # lastProduced
          /\ f # maskResult
          /\ f # pollLatest
    /\ (mlFailed # {} /\ mlAlive) => mlPc # "done"
    /\ (mlPc = "recv" /\ mlFrameChan # <<>>) => ENABLED WorkerRecv
    /\ mlPc = "predict" => ENABLED PredictOk

\* a frame failed, and a frame accepted after it was processed and its mask
\* reached the caller
C11_Witness ==
    /\ mlFailed # {}
    /\ mlAlive
    /\ \E f \in mlFailed : maskResult > f /\ maskResult = lastProduced

(***************************************************************************)
(* Auxiliary video decoder: frames and playback                            *)
(***************************************************************************)
\* every frame the decode thread has emitted and the player still knows of:
\* received, queued, and the one the thread is about to send
Emitted == vidRecvd \o vidChan \o (IF vidPc = "send" THEN <<vidBuf>> ELSE <<>>)

\* C12: the timestamps of the frames emitted by the decode thread never
\* decrease, the restart of the subprocess at end-of-stream included.
C12_TimestampsNeverDecrease ==
    vidAlive => \A i \in 1..Len(Emitted) : \A j \in i..Len(Emitted) :
                    Emitted[i].ts <= Emitted[j].ts

\* the last frame of q that is due at playback time pt (NoFrame: none)
RECURSIVE LastDue(_, _)
LastDue(q, pt) ==
    IF q = <<>> THEN NoFrame
    ELSE IF Last(q).ts <= pt THEN Last(q)
    ELSE LastDue(SubSeq(q, 1, Len(q) - 1), pt)

\* C13: start_time is recorded by the first call and never changes; a frame
\* returned by get_frame has timestamp <= time - start_time, and it is the
\* last frame received so far whose timestamp is <= the playback time.
C13_GetFrame ==
    [][/\ vidStart # NoTime => vidStart' = vidStart
       /\ (vidStart = NoTime /\ vidTime' # vidTime) => vidStart' = vidTime'
       /\ (vidAlive' /\ gfPc' = "idle" /\ (gfPc = "drain" \/ vidReturned' # vidReturned
                                             \/ vidTime' # vidTime)) =>
             /\ vidStart' # NoTime
             /\ vidReturned' # NoFrame => vidReturned'.ts <= vidTime' - vidStart'
             /\ vidReturned' = LastDue(vidRecvd', vidTime' - vidStart')]_vars

\* a call held a received frame back as next_frame and returned the one before
C13_Witness ==
    /\ vidAlive
    /\ gfPc = "idle"
    /\ vidStart = 1
    /\ vidNext # NoFrame
    /\ vidReturned # NoFrame
    /\ vidNext.ts > vidTime - vidStart
    /\ Len(vidRecvd) >= 3

\* C14: never more than five frames wait in the hand-off, the decode thread
\* cannot send while it is full, and the frames received, queued and about to
\* be sent are exactly the frames read from the subprocesses, in decode order.
C14_BoundedAndLossless ==
    /\ Len(vidChan) <= VideoChanCap
    /\ (vidPc = "send" /\ vidAlive /\ Len(vidChan) = VideoChanCap) => ~ENABLED SendFrame
    /\ vidAlive => /\ Len(Emitted) = vidSeq
                   /\ \A i \in 1..Len(Emitted) : Emitted[i].id = i

\* the decode thread stands blocked in send() on a full hand-off
C14_Witness ==
    /\ vidAlive
    /\ vidPc = "send"
    /\ Len(vidChan) = VideoChanCap
    /\ vidSeq = VideoChanCap + 1

(***************************************************************************)
(* WgpuPipeline: claims                                                    *)
(***************************************************************************)
\* some stage's compiled shader declares the mask binding
SomeStageBindsMask == \E i \in 1..Len(renderPipelines) : renderPipelines[i].bindsMask

\* C15: the step by which WgpuPipeline::new returns leaves a segmentation
\* worker only if some shader it was given declares the mask binding; with no
\* shaders, or none that declares it, there is no worker.
C15_WorkerOnlyIfMaskShader ==
    [][(wpPc = "new" /\ wpPc' # "new") =>
          (segmentationEngine' =>
              \E i \in 1..Len(shaderSources') : shaderSources'[i].code.bindsMask)]_vars

\* two shaders, only the second declares the mask binding: a worker exists
C15_Witness ==
    /\ wpPc = "idle"
    /\ edits = 0
    /\ pipeFrames = 0
    /\ segmentationEngine
    /\ Len(shaderSources) = 2
    /\ ~shaderSources[1].code.bindsMask
    /\ shaderSources[2].code.bindsMask

\* C16: whatever reloads have happened, a segmentation worker exists exactly
\* when some currently loaded stage declares the mask binding.
C16_WorkerIffMaskStage ==
    wpPc \in {"idle", "frame"} => (segmentationEngine <=> SomeStageBindsMask)

\* the reload of stage i fails: its file cannot be read or does not translate
ReloadFails(i) ==
    /\ shaderSources[i].hasPath
    /\ \/ ~shaderFiles[i].readable
       \/ shaderSources[i].kind = "glsl" /\ ~shaderFiles[i].code.valid

\* C17: a check_reload in which reading or translating a stage's file fails
\* leaves that stage's render pipeline object as it was and the number of
\* stages unchanged, and the frame is then processed.
C17_FailedReloadKeepsStage ==
    /\ [][(wpPc = "idle" /\ wpPc' = "frame" /\ reloadRx = "event") =>
             /\ Len(renderPipelines') = Len(renderPipelines)
             /\ \A i \in 1..Len(shaderSources) :
                   ReloadFails(i) => renderPipelines'[i] = renderPipelines[i]]_vars
    /\ [](wpPc = "frame" => ENABLED FrameBody)

\* a GLSL file that no longer translates was reloaded, the stage still has the
\* pipeline object it was constructed with, and a frame went through it
C17_Witness ==
    /\ wpPc = "idle"
    /\ edits = 1
    /\ reloadRx = "empty"
    /\ pipeFrames >= 1
    /\ outFrame # NoOutFrame
    /\ \E i \in 1..Len(shaderSources) :
          /\ shaderSources[i].kind = "glsl"
          /\ shaderSources[i].hasPath
          /\ shaderFiles[i].readable
          /\ ~shaderFiles[i].code.valid
          /\ renderPipelines[i].obj = i

\* C18: check_reload leaves the number of stages, the mask, auxiliary, input
\* and output textures, the readback buffer, the bind groups and the cached
\* dimensions as they were, and the render pipeline of every stage that is
\* not file-backed.
C18_ReloadChangesOnlyPipelines ==
    [][(wpPc = "idle" /\ wpPc' = "frame") =>
          /\ Len(renderPipelines') = Len(renderPipelines)
          /\ UNCHANGED <<maskTexture, imageTextures, inputTexture, outputTextures,
                         readbackBuffer, bindGroups, cachedDims>>
          /\ \A i \in 1..Len(renderPipelines) :
                (i > Len(shaderSources) \/ ~shaderSources[i].hasPath) =>
                    renderPipelines'[i] = renderPipelines[i]]_vars

\* after a first frame built the resources, a reload replaced the pipeline of
\* a file-backed stage next to a stage that is not file-backed
C18_Witness ==
    /\ wpPc = "frame"
    /\ pipeFrames = 1
    /\ edits = 1
    /\ reloadRx = "empty"
    /\ bindGroups # <<>>
    /\ Len(shaderSources) = 2
    /\ \E i, j \in 1..2 :
          /\ shaderSources[i].hasPath
          /\ renderPipelines[i].obj > objCount - 2
          /\ ~shaderSources[j].hasPath
          /\ renderPipelines[j].obj = j

\* C19: without a segmentation worker, the mask texture bound at a dispatch
\* is 1x1 and holds 255.
C19_NoWorkerMaskIsWhite ==
    (~segmentationEngine /\ dispatched # NoDispatch) =>
        (dispatched.w = 1 /\ dispatched.h = 1 /\ dispatched.val = "255")

\* C20: a frame returned by process_frame is RGBA, has the configured output
\* width and height, and width * height * 4 bytes of data.
C20_OutputFrameShape ==
    outFrame # NoOutFrame =>
        /\ outFrame.fmt = "rgba"
        /\ outFrame.w = outputSize[1]
        /\ outFrame.h = outputSize[2]
        /\ outFrame.len = outputSize[1] * outputSize[2] * 4

\* the second frame had another size than the first (the cache was rebuilt)
\* and neither size is the output size
C20_Witness ==
    /\ wpPc = "idle"
    /\ pipeFrames = 2
    /\ edits = 0
    /\ outputSize = <<100, 1>>
    /\ cachedDims.w = 32
    /\ inputTexture.obj > Len(renderPipelines) + 4
    /\ outFrame.len = 400

\* C21: a process_frame call whose frame size and mask size equal the cached
\* ones and in which no auxiliary texture was re-allocated leaves the input
\* texture, the output textures, the readback buffer, the mask texture object
\* and the bind groups as they were; the mask texture object is replaced only
\* when the mask size differs from the cached one.
C21_CacheRebuiltOnlyOnChange ==
    [][(wpPc = "frame" /\ wpPc' = "idle") =>
          /\ (cachedDims' = cachedDims /\ imageTextures' = imageTextures) =>
                /\ UNCHANGED <<inputTexture, outputTextures, readbackBuffer, bindGroups>>
                /\ maskTexture'.obj = maskTexture.obj
          /\ (cachedDims'.mw = cachedDims.mw /\ cachedDims'.mh = cachedDims.mh) =>
                maskTexture'.obj = maskTexture.obj]_vars

\* two frames of the same size went through: the resources of the first
\* frame are still in place after the second
C21_Witness ==
    /\ wpPc = "idle"
    /\ pipeFrames = 2
    /\ edits = 0
    /\ bindGroups # <<>>
    /\ inputTexture.obj = Len(renderPipelines) + 4
    /\ bindGroups[1].input = inputTexture.obj

\* C22: once a frame has been dispatched there is one bind group and one
\* output texture per stage, the first stage samples the input texture, each
\* later stage samples the output texture of the stage before it, no stage
\* samples the texture it renders into, and the frame is read back from the
\* last stage's output texture.
C22_StagesFormAChain ==
    dispatched # NoDispatch =>
        /\ Len(bindGroups) = Len(renderPipelines)
        /\ Len(outputTextures) = Len(renderPipelines)
        /\ bindGroups[1].input = inputTexture.obj
        /\ \A k \in 2..Len(bindGroups) : bindGroups[k].input = outputTextures[k - 1].obj
        /\ \A k \in 1..Len(bindGroups) : bindGroups[k].input # outputTextures[k].obj
        /\ copies.from = outputTextures[Len(outputTextures)].obj

\* two stages, after a reload and two frames, the second of another size
C22_Witness ==
    /\ wpPc = "idle"
    /\ pipeFrames = 2
    /\ edits = 1
    /\ reloadRx = "empty"
    /\ Len(renderPipelines) = 2
    /\ inputTexture.obj > Len(renderPipelines) + 4
    /\ bindGroups[2].input = outputTextures[1].obj

\* C23: every bytes_per_row passed to the camera, mask and video uploads and
\* to the readback copy is a multiple of the row alignment.
C23_RowsAligned ==
    /\ copies.camera % RowAlignment = 0
    /\ copies.mask % RowAlignment = 0
    /\ copies.video % RowAlignment = 0
    /\ copies.readback % RowAlignment = 0

(***************************************************************************)
(* C24 - C26: the shared-memory sink                                       *)
(***************************************************************************)
\* a slot holds one frame completely: both planes and the timestamp are its own
SlotComplete(s) == s.y # 0 /\ s.uv = s.y /\ s.ts = SlotTimestamp(TimestampUs(s.y))

\* the publisher is between fetch_add and the end of the copies
Copying(p) == pubPc[p] \in {"timestamp", "copyY", "copyUV"}

\* the publisher has initialised the header and not yet released the region
Holds(p) == pubPc[p] \in {"owner", "timestamp", "copyY", "copyUV", "storeRead",
                          "storeState", "dropping"}

\* C24: in the shared-memory sink a write publishes read index = write index only
\* after the timestamp and both planes are in slot (write index mod 3): the read
\* index never exceeds the write index, a write that has not stored the read index
\* is not designated by it, and once the state is ready the slot designated by
\* read index mod 3 holds a completely written frame that no writer is modifying.
C24_ReadSlotComplete ==
    RegionExists =>
        /\ readIdx <= writeIdx
        /\ \A p \in Pubs :
              (Copying(p) \/ pubPc[p] = "storeRead") => readIdx < pubInc[p]
        /\ \A p \in Pubs :
              Copying(p) => WriteSlot(pubInc[p]) # readIdx % NumSlots
        /\ qState = "ready" => SlotComplete(slots[readIdx % NumSlots])

\* C25: a publisher that finds the named region refuses to start and leaves the
\* region as it is, and at most one publisher holds the region at any time, also
\* when two publishers start concurrently.
C25_OnePublisher ==
    /\ [][\A p \in Pubs :
            (pubPc[p] = "idle" /\ pubPc'[p] # "idle" /\ RegionExists) =>
                /\ pubPc'[p] = "refused"
                /\ UNCHANGED <<shmHandles, writeIdx, readIdx, qState, slots>>]_vars
    /\ [](Cardinality(shmHandles \cap Pubs) <= 1)

\* C26: while a publisher holds the region the header state is starting until the
\* publisher's first write has completed, ready after each of its completed writes
\* and stopping once it is dropped, so never invalid; and a state of stopping does
\* not change while the region exists.
C26_StateLifecycle ==
    /\ [](\A p \in Pubs :
            Holds(p) => qState = IF pubPc[p] = "dropping" THEN "stopping"
                                 ELSE IF pubWrites[p] = 0 THEN "starting"
                                 ELSE "ready")
    /\ [][(qState = "stopping" /\ shmHandles' # {}) => qState' = "stopping"]_vars


(***************************************************************************)
(* C27 - C29: live configuration                                           *)
(***************************************************************************)
\* the last step handled a successfully parsed change of the configuration file
ParsedChange == lastNew # NoConfig

\* the messages that tell of a change that was not applied
NotAppliedMessages == {"warn: output mode", "error: capture", "error: output",
                       "error: pipeline"}

\* C27: on a successfully parsed configuration change the pipeline is rebuilt if
\* the shader list or the texture list differs from the configuration in effect,
\* the capture worker is restarted if input, width, height or fps differs, a change
\* confined to shaders and textures restarts no capture, and a file equal to the
\* configuration in effect rebuilds and restarts nothing.
C27_ReloadEffects ==
    ParsedChange =>
        /\ ShaderOrTextureChanged(lastNew, lastOld) => rebuilt
        /\ CaptureChanged(lastNew, lastOld) => restarted
        /\ ~CaptureChanged(lastNew, lastOld) => ~restarted
        /\ lastNew = lastOld => ~restarted /\ ~rebuilt

\* C28: a successfully parsed change that differs from the configuration in effect
\* and is not applied (no capture restart, no pipeline rebuild) is logged with a
\* warning or an error; a change of the output mode logs the warning, and a change
\* of the output mode alone restarts and rebuilds nothing.
C28_IgnoredChangeLogged ==
    ParsedChange =>
        /\ (lastNew # lastOld /\ ~restarted /\ ~rebuilt) =>
                logs \cap NotAppliedMessages # {}
        /\ lastNew.output # lastOld.output => "warn: output mode" \in logs
        /\ Differing(lastNew, lastOld) = {"output"} => ~restarted /\ ~rebuilt

\* C29: a camera that cannot be opened at startup does not end the program (the
\* program ends at startup only for another failure); without a capture worker
\* the loop ticks and produces no frame; a change whose restart opens the camera
\* leaves a capture worker for the new configuration.  In both modes.
C29_CameraFailureNotFatal ==
    /\ [](appPc = "exited" =>
            logs \cap {"error: initialization", "Err: pipeline", "Err: sink"} # {})
    /\ []((ParsedChange /\ restarted /\ "error: capture" \notin logs) =>
            capture = CaptureConfigOf(lastNew))
    /\ [][(appPc = "frame" /\ capture = NoCapture) =>
            (appPc' = "check" /\ ~produced')]_vars


(***************************************************************************)
(* C30: frame layouts                                                      *)
(***************************************************************************)
\* the number of bytes of a width x height image in the format: three or four
\* bytes per pixel, two bytes per pixel for the packed 4:2:2 formats, and for NV12
\* the Y plane followed by half as many rows of interleaved U and V
LayoutBytes(format, width, height) ==
    CASE format = "Rgb" -> 3 * width * height
      [] format = "Rgba" -> 4 * width * height
      [] format \in {"Yuyv", "Uyvy"} -> 2 * width * height
      [] format = "Nv12" ->
            width * height + (2 * ((width + 1) \div 2)) * ((height + 1) \div 2)

\* C30: every frame made by VideoFrame::new or returned by to_rgba, to_nv12,
\* to_yuyv or to_uyvy has a data length equal to the layout of its format for its
\* width and height.
C30_LengthMatchesLayout ==
    (frm # NoVideoFrame /\ frmFrom \in {"new", "to_rgba", "to_nv12", "to_yuyv", "to_uyvy"}) =>
        frm.len = LayoutBytes(frm.format, frm.width, frm.height)


(***************************************************************************)
(* C31: YUYV and UYVY                                                      *)
(***************************************************************************)
\* the byte that shares a pair with byte i (bytes are counted from 1)
PairMate(i) == IF i % 2 = 1 THEN i + 1 ELSE i - 1

\* C31: the YUYV made from a UYVY frame is that frame with the two bytes of each
\* pair exchanged; and to_uyvy applied to the result of f.to_yuyv() returns the
\* frame f.to_uyvy() returns, which for a UYVY frame f is f itself.
C31_YuyvThenUyvy ==
    /\ []((frmFrom = "to_yuyv" /\ frm # NoVideoFrame /\ frmSrc.format = "Uyvy") =>
            /\ frm.len = frmSrc.len
            /\ \A i \in 1..frm.len : frm.data[i] = frmSrc.data[PairMate(i)])
    /\ [][(frmFrom = "to_yuyv" /\ frm # NoVideoFrame /\ frmFrom' = "to_uyvy"
            /\ frmOps' = frmOps + 1) =>
            /\ frm' = ToUyvy(frmSrc)
            /\ (frmSrc.format = "Uyvy" => frm' = frmSrc)]_vars

\* to_yuyv and then to_uyvy were applied to a frame whose bytes differ
C31_Witness ==
    /\ frmFrom = "to_uyvy"
    /\ frmOps = 2
    /\ frm # NoVideoFrame
    /\ frmSrc # NoVideoFrame
    /\ frmSrc.format = "Yuyv"
    /\ frm.data # frmSrc.data


(***************************************************************************)
(* C32: RGB to RGBA                                                        *)
(***************************************************************************)
\* C32: to_rgba of an RGB frame returns an RGBA frame of the same width and
\* height with 4 * width * height bytes, whose pixel p has the R, G and B bytes of
\* the source's pixel p in the same order and alpha 255, and the source is as it
\* was before the call; to_rgba of an RGBA frame returns a frame equal to it.
C32_RgbToRgba ==
    [][(frm # NoVideoFrame /\ frmFrom' = "to_rgba" /\ frmOps' = frmOps + 1) =>
        /\ (frm.format = "Rgb" =>
                /\ frm' # NoVideoFrame
                /\ frm'.format = "Rgba"
                /\ frm'.width = frm.width
                /\ frm'.height = frm.height
                /\ frm'.len = 4 * frm.width * frm.height
                /\ Len(frm'.data) = 4 * frm.width * frm.height
                /\ \A p \in 0..(frm.width * frm.height - 1) :
                      /\ \A k \in 1..3 : frm'.data[4 * p + k] = frm.data[3 * p + k]
                      /\ frm'.data[4 * p + 4] = 255
                /\ frmSrc' = frm)
        /\ (frm.format = "Rgba" => frm' = frm /\ frmSrc' = frm)]_vars

\* an RGB frame whose bytes differ was converted to RGBA
C32_Witness ==
    /\ frmFrom = "to_rgba"
    /\ frm # NoVideoFrame
    /\ frmSrc # NoVideoFrame
    /\ frmSrc.format = "Rgb"
    /\ frmSrc.data[1] # frmSrc.data[2]
    /\ frm.format = "Rgba"


(***************************************************************************)
(* C33: the held next frame                                                *)
(***************************************************************************)
\* C33: every received frame whose timestamp is greater than the playback time
\* is the one held as next_frame, and it is the last frame taken; while a next
\* frame is held nothing is taken from the channel; a call that finds it not yet
\* due returns the current frame and changes neither; a call that finds it due
\* makes it the current frame and takes nothing in that step.
C33_NextFrameHeld ==
    /\ [](vidAlive =>
            \A i \in 1..Len(vidRecvd) :
                vidRecvd[i].ts > vidTime - vidStart =>
                    /\ i = Len(vidRecvd)
                    /\ vidNext = vidRecvd[i]
                    /\ gfPc = "idle")
    /\ [][(vidNext # NoFrame /\ vidAlive') =>
            /\ vidRecvd' = vidRecvd
            /\ gfPc = "idle"
            /\ IF vidNext.ts > vidTime' - vidStart'
               THEN /\ vidNext' = vidNext
                    /\ vidCurrent' = vidCurrent
                    /\ vidReturned' = vidCurrent
                    /\ gfPc' = "idle"
               ELSE /\ vidCurrent' = vidNext
                    /\ vidNext' = NoFrame
                    /\ gfPc' = "drain"
                    /\ vidChan' = vidChan]_vars

\* a frame is held back as next_frame behind a current frame while further
\* frames wait in the channel
C33_Witness ==
    /\ vidAlive
    /\ gfPc = "idle"
    /\ vidNext # NoFrame
    /\ vidCurrent # NoFrame
    /\ vidNext.ts > vidTime - vidStart
    /\ vidTime > vidStart
    /\ vidChan # <<>>
    /\ Len(vidRecvd) >= 2


(***************************************************************************)
(* C34: the frame written to the sink                                      *)
(***************************************************************************)
\* C34: in virtual-camera mode a frame handed to write_frame, which has the
\* pipeline's output size, has the width and height the sink is configured with.
C34_FrameMatchesSink ==
    [][(appMode = "virtual-camera" /\ appPc = "frame" /\ produced') =>
        /\ pipeline.width = sinkConfig.width
        /\ pipeline.height = sinkConfig.height]_vars


(***************************************************************************)
(* C35: replacing the sink                                                 *)
(***************************************************************************)
\* C35: the handling of a configuration change in virtual-camera mode returns to
\* the loop: the loop's thread is never left waiting for, or panicking on, the
\* instance lock that its own output holds.
C35_ReplacementCompletes ==
    appMode = "virtual-camera" => appPc \notin {"blocked", "panicked"}


(***************************************************************************)
(* C36: the camera during a live restart                                   *)
(***************************************************************************)
\* C36: the thread of a restarted capture is inside NokhwaCapture::open, or
\* holds the camera it opened, only when the threads of the captures dropped
\* before it have terminated.
C36_OneThreadAtTheCamera ==
    capPc \in {"opening", "loop", "capture", "send"} =>
        \A i \in 1..Len(oldCapPc) : oldCapPc[i] = "done"


(***************************************************************************)
(* C37: masks waiting for the loop                                         *)
(***************************************************************************)
\* C37: at most three mask results wait in the result channel.
C37_MasksBounded == Len(maskChan) <= 3

\* three results wait: of the frame the worker was predicting and the frame
\* buffered behind it when the last poll returned, and of the frame just sent
C37_Witness ==
    /\ Len(maskChan) = 3
    /\ plPc = "poll"
    /\ mlAlive


(***************************************************************************)
(* C38: a configuration file that cannot be read or parsed                 *)
(***************************************************************************)
\* C38: a check that fails to read or parse the changed file hands no change to
\* the loop: the recorded configuration, the capture worker, the pipeline, the
\* sink and the frame duration stay as they are and the tick goes on; the
\* recorded configuration changes only to a configuration that was parsed, and
\* a parsed change restarts the capture according to its difference from the
\* recorded configuration.
C38_FailedReadChangesNothing ==
    [][appPc = "check" =>
        /\ ("error: read or parse" \in logs') =>
                /\ recorded' = recorded
                /\ capture' = capture
                /\ pipeline' = pipeline
                /\ sinkConfig' = sinkConfig
                /\ frameDuration' = frameDuration
                /\ lastNew' = NoConfig
                /\ ~restarted'
                /\ ~rebuilt'
                /\ appPc' = "frame"
        /\ recorded' = (IF lastNew' # NoConfig THEN lastNew' ELSE recorded)
        /\ (lastNew' # NoConfig /\ recorded # NoConfig) =>
                restarted' = CaptureChanged(lastNew', recorded)]_vars

\* a read failed after an earlier change had been parsed and recorded
C38_Witness ==
    /\ "error: read or parse" \in logs
    /\ appPc = "frame"
    /\ recorded # NoConfig
    /\ recorded # StartConfig(appMode)
    /\ capture # NoCapture


(***************************************************************************)
(* C39: a failed pipeline rebuild                                          *)
(***************************************************************************)
\* C39: when the rebuild of the pipeline after a configuration change fails, the
\* pipeline that was installed before the change is still installed afterwards,
\* and the loop goes on to the frame part of the tick, which it can take.
C39_FailedRebuildKeepsPipeline ==
    /\ [][(appPc = "check" /\ "error: pipeline" \in logs') =>
            /\ pipeline # NoPipeline
            /\ pipeline' = pipeline
            /\ appPc' = "frame"]_vars
    /\ []((appPc = "frame" /\ "error: pipeline" \in logs) =>
            /\ pipeline # NoPipeline
            /\ ENABLED FrameTick)

\* a rebuild for a parsed change failed and the tick continues with a capture
C39_Witness ==
    /\ "error: pipeline" \in logs
    /\ appPc = "frame"
    /\ rebuilt
    /\ pipeline # NoPipeline
    /\ capture # NoCapture
    /\ PipelineOf(lastNew, pipeline.width, pipeline.height) # pipeline


====
